---------------------------- MODULE Spec2Model ----------------------------
(***************************************************************************)
(* A model of the EasyProfiler capture decoder (parser/reader.go,          *)
(* parser/types.go) and of the analysis engine (analyzer/analyzer.go).     *)
(*                                                                         *)
(* A file is a sequence of bytes.  Every multi-byte integer of the format  *)
(* is kept as the little-endian sequence of its bytes (a "word"), so that  *)
(* 32-bit and 64-bit values keep their full width: the arithmetic the code *)
(* does on them (uint16 record sizes, uint64 timestamps, int64 durations)  *)
(* is done on words, modulo 2^(8*width).  Strings are byte sequences.      *)
(***************************************************************************)
EXTENDS Integers, Sequences, FiniteSets, TLC

---------------------------------------------------------------------------
(* Words: little-endian byte sequences.                                    *)

RECURSIVE LE(_, _)
\* The w-byte little-endian encoding of the natural number n.
LE(n, w) == IF w = 0 THEN <<>> ELSE <<n % 256>> \o LE(n \div 256, w - 1)

Zeros(n) == [i \in 1..n |-> 0]

\* Zero-extension of a word to n bytes (uint64(pid32), uint64(threadID32)).
ZeroExt(w, n) == w \o Zeros(n - Len(w))

RECURSIVE WLtFrom(_, _, _)
WLtFrom(a, b, i) ==
    IF i = 0 THEN FALSE
    ELSE IF a[i] # b[i] THEN a[i] < b[i]
    ELSE WLtFrom(a, b, i - 1)

\* Unsigned a < b, for words of one width.
WLt(a, b) == WLtFrom(a, b, Len(a))

RECURSIVE WAddC(_, _, _)
WAddC(a, b, c) ==
    IF a = <<>> THEN <<>>
    ELSE LET s == a[1] + b[1] + c
         IN  <<s % 256>> \o WAddC(Tail(a), Tail(b), s \div 256)

\* a + b modulo 2^(8*width).
WAdd(a, b) == WAddC(a, b, 0)

RECURSIVE WSubB(_, _, _)
WSubB(a, b, c) ==
    IF a = <<>> THEN <<>>
    ELSE LET d == a[1] - b[1] - c
         IN  <<d % 256>> \o WSubB(Tail(a), Tail(b), IF d < 0 THEN 1 ELSE 0)

\* a - b modulo 2^(8*width).
WSub(a, b) == WSubB(a, b, 0)

\* Two's complement sign, negation and signed order (int64, int32).
IsNeg(w) == w[Len(w)] >= 128
WNeg(w) == WSub(Zeros(Len(w)), w)
SLt(a, b) == IF IsNeg(a) # IsNeg(b) THEN IsNeg(a) ELSE WLt(a, b)

RECURSIVE UDivFrom(_, _, _, _)
\* Long division of the bytes i..1 of w by the small number d, remainder r
\* carried in from the bytes above; the result is <<quotient bytes, remainder>>.
UDivFrom(w, d, i, r) ==
    IF i = 0 THEN <<<<>>, r>>
    ELSE LET cur  == r * 256 + w[i]
             rest == UDivFrom(w, d, i - 1, cur % d)
         IN  <<Append(rest[1], cur \div d), rest[2]>>

\* Unsigned quotient and remainder of a word by a small positive number.
UDiv(w, d) == UDivFrom(w, d, Len(w), 0)[1]
UMod(w, d) == UDivFrom(w, d, Len(w), 0)[2]

\* Go's signed division (truncated toward zero) by a small positive number.
SDiv(w, d) == IF IsNeg(w) THEN WNeg(UDiv(WNeg(w), d)) ELSE UDiv(w, d)

RECURSIVE WMulC(_, _, _)
WMulC(a, k, c) ==
    IF a = <<>> THEN <<>>
    ELSE LET s == a[1] * k + c
         IN  <<s % 256>> \o WMulC(Tail(a), k, s \div 256)

\* w * k modulo 2^(8*width), k a small natural number.
WMul(w, k) == WMulC(w, k, 0)

\* The value of a 16-bit word.
Val16(w) == w[1] + 256 * w[2]

\* i < w for a natural number i below 2^31 and a 32-bit word w.
NatLtU32(i, w) ==
    IF w[4] >= 128 THEN TRUE
    ELSE i < w[1] + 256 * w[2] + 65536 * w[3] + 16777216 * w[4]

---------------------------------------------------------------------------
(* Format constants (parser/types.go).                                     *)

EasyProfilerSignature == 1164014457
MinCompatibleVersion == 65536
Version130 == 16973824
Version200 == 33554432
Version210 == 33619968

\* A 32-bit constant as a word.
U32(n) == LE(n, 4)
U64(n) == LE(n, 8)

---------------------------------------------------------------------------
(* The byte cursor: encoding/binary.Read and io.ReadFull over the file.    *)
(* A read of n bytes at offset p of the bytes b succeeds when n bytes are  *)
(* left, fails with io.EOF when none is left and with                      *)
(* io.ErrUnexpectedEOF when some but fewer than n are left; a read of zero *)
(* bytes always succeeds.  p may lie beyond the end after a Seek.          *)

ReadFull(b, p, n) ==
    IF n = 0 THEN [err |-> "", pos |-> p, val |-> <<>>]
    ELSE IF p >= Len(b) THEN [err |-> "EOF", pos |-> p, val |-> <<>>]
    ELSE IF Len(b) - p < n
         THEN [err |-> "ErrUnexpectedEOF", pos |-> Len(b), val |-> <<>>]
    ELSE [err |-> "", pos |-> p + n, val |-> SubSeq(b, p + 1, p + n)]

RECURSIVE ReadFields(_, _, _)
\* The consecutive binary.Read calls of one record: the fields of the given
\* widths are read in order and the first failing read ends the record with
\* its error.  vals holds the fields read.  (CHOOSE over a singleton binds
\* the outcome of a read as a value, evaluated once.)
ReadFields(b, p, widths) ==
    IF widths = <<>> THEN [err |-> "", pos |-> p, vals |-> <<>>]
    ELSE LET Then(r, rest) ==
                 [rest EXCEPT !.vals = <<r.val>> \o @]
             First(r) ==
                 IF r.err # "" THEN [err |-> r.err, pos |-> r.pos, vals |-> <<>>]
                 ELSE Then(r, ReadFields(b, r.pos, Tail(widths)))
         IN  CHOOSE f \in {First(r) : r \in {ReadFull(b, p, Head(widths))}} : TRUE

RECURSIVE Concat(_)
\* The concatenation of a sequence of sequences.
Concat(ss) == IF ss = <<>> THEN <<>> ELSE Head(ss) \o Concat(Tail(ss))

\* string(bytes[:len(bytes)-1]): the bytes without the last one.
DropLast(s) == SubSeq(s, 1, Len(s) - 1)

---------------------------------------------------------------------------
(* Reader.readHeader.                                                      *)

ZeroHeader ==
    [Signature |-> Zeros(4), Version |-> Zeros(4), PID |-> Zeros(8),
     CPUFrequency |-> Zeros(8), BeginTime |-> Zeros(8), EndTime |-> Zeros(8),
     MemorySize |-> Zeros(8), DescriptorsMemorySize |-> Zeros(8),
     BlocksCount |-> Zeros(4), DescriptorsCount |-> Zeros(4),
     ThreadsCount |-> Zeros(4), BookmarksCount |-> Zeros(2),
     Padding |-> Zeros(2)]

\* A readHeader without the reordering of version 2.0.0: the fields in the
\* order of the 1.x layouts for every version.
HeaderFieldsOldOrder(version) ==
    << <<"PID", IF WLt(version, U32(Version130)) THEN 4 ELSE 8>>,
       <<"CPUFrequency", 8>>, <<"BeginTime", 8>>, <<"EndTime", 8>>,
       <<"BlocksCount", 4>>, <<"MemorySize", 8>>,
       <<"DescriptorsCount", 4>>, <<"DescriptorsMemorySize", 8>> >>
    \o (IF ~WLt(version, U32(Version210))
        THEN << <<"ThreadsCount", 4>>, <<"BookmarksCount", 2>>, <<"Padding", 2>> >>
        ELSE <<>>)

\* The fields readHeader reads after the signature and the version, in the
\* order it reads them for the given version, each with its width on disk.
HeaderFields(version) ==
    << <<"PID", IF WLt(version, U32(Version130)) THEN 4 ELSE 8>>,
       <<"CPUFrequency", 8>>, <<"BeginTime", 8>>, <<"EndTime", 8>> >>
    \o (IF WLt(version, U32(Version200))
        THEN << <<"BlocksCount", 4>>, <<"MemorySize", 8>>,
                <<"DescriptorsCount", 4>>, <<"DescriptorsMemorySize", 8>> >>
        ELSE << <<"MemorySize", 8>>, <<"DescriptorsMemorySize", 8>>,
                <<"BlocksCount", 4>>, <<"DescriptorsCount", 4>> >>
             \o (IF ~WLt(version, U32(Version210))
                 THEN << <<"ThreadsCount", 4>>, <<"BookmarksCount", 2>>,
                         <<"Padding", 2>> >>
                 ELSE <<>>))

readHeader(b) ==
    LET Read(sv, fields, r) ==
            LET Got(name) == \E i \in 1..Len(fields) : fields[i][1] = name
                Idx(name) == CHOOSE i \in 1..Len(fields) : fields[i][1] = name
                h == [f \in DOMAIN ZeroHeader |->
                        IF f = "Signature" THEN sv.vals[1]
                        ELSE IF f = "Version" THEN sv.vals[2]
                        ELSE IF Got(f) THEN ZeroExt(r.vals[Idx(f)], Len(ZeroHeader[f]))
                        ELSE ZeroHeader[f]]
            IN  IF r.err # "" THEN [err |-> r.err, pos |-> r.pos, hdr |-> ZeroHeader]
                ELSE [err |-> "", pos |-> r.pos, hdr |-> h]
        ReadAll(sv, fields) ==
            CHOOSE x \in {Read(sv, fields, r) :
                            r \in {ReadFields(b, sv.pos,
                                       [i \in 1..Len(fields) |-> fields[i][2]])}} : TRUE
        AfterVersion(sv) ==
            IF sv.err # "" THEN [err |-> sv.err, pos |-> sv.pos, hdr |-> ZeroHeader]
            ELSE CHOOSE x \in {ReadAll(sv, fields) :
                                 fields \in {HeaderFields(sv.vals[2])}} : TRUE
    IN  CHOOSE x \in {AfterVersion(sv) : sv \in {ReadFields(b, 0, <<4, 4>>)}} : TRUE

---------------------------------------------------------------------------
(* Go maps (Descriptors, Threads): functions on the set of their keys.     *)

EmptyMap == [k \in {} |-> 0]
Put(m, key, v) == [k \in (DOMAIN m) \cup {key} |-> IF k = key THEN v ELSE m[k]]

---------------------------------------------------------------------------
(* Reader.readDescriptor, Reader.readDescriptors.                          *)
(* An err of "panic" is a Go run-time panic (slice bounds out of range).   *)

\* remainingSize := size - (4 + 4 + 4 + 1 + 1 + 2 + nameLength), in uint16.
DescriptorRemainingSize(size, nameLength) == (size - (16 + nameLength)) % 65536

readDescriptor(b, p) ==
    LET f == ReadFields(b, p, <<2, 4, 4, 4, 1, 1, 2>>)
    IN  IF f.err # "" THEN [err |-> f.err, pos |-> f.pos]
        ELSE
        LET size == Val16(f.vals[1])
            nameLength == Val16(f.vals[7])
            nm == ReadFull(b, f.pos, nameLength)
        IN  IF nm.err # "" THEN [err |-> nm.err, pos |-> nm.pos]
            ELSE IF Len(nm.val) = 0 THEN [err |-> "panic", pos |-> nm.pos]
            ELSE
            LET remainingSize == DescriptorRemainingSize(size, nameLength)
                fl == ReadFull(b, nm.pos, remainingSize)
                d == [ID |-> f.vals[2], Line |-> f.vals[3], Color |-> f.vals[4],
                      Type |-> f.vals[5], Status |-> f.vals[6],
                      Name |-> DropLast(nm.val),
                      File |-> IF remainingSize > 0 THEN DropLast(fl.val) ELSE <<>>]
            IN  IF remainingSize > 0 /\ fl.err # ""
                THEN [err |-> fl.err, pos |-> fl.pos]
                ELSE [err |-> "", pos |-> fl.pos, val |-> d]

RECURSIVE readDescriptorsFrom(_, _, _, _, _)
readDescriptorsFrom(b, p, i, count, descs) ==
    IF ~NatLtU32(i, count) THEN [err |-> "", pos |-> p, descs |-> descs]
    ELSE LET Then(d) ==
                 IF d.err # "" THEN [err |-> d.err, pos |-> d.pos, descs |-> descs]
                 ELSE readDescriptorsFrom(b, d.pos, i + 1, count,
                                          Put(descs, d.val.ID, d.val))
         IN  Then(readDescriptor(b, p))

readDescriptors(b, p, hdr) ==
    readDescriptorsFrom(b, p, 0, hdr.DescriptorsCount, EmptyMap)

---------------------------------------------------------------------------
(* Reader.readContextSwitch, Reader.readBlock, Reader.readThread.          *)

\* remainingSize := size - 24 and size - 20 and size - 12, in uint16.
RemainingSize(size, fixed) == (size - fixed) % 65536

readContextSwitch(b, p) ==
    LET f == ReadFields(b, p, <<2, 8, 8, 8>>)
    IN  IF f.err # "" THEN [err |-> f.err, pos |-> f.pos]
        ELSE
        LET remainingSize == RemainingSize(Val16(f.vals[1]), 24)
            nm == ReadFull(b, f.pos, remainingSize)
            cs == [ThreadID |-> f.vals[2], Begin |-> f.vals[3], End |-> f.vals[4],
                   Name |-> IF remainingSize > 0 THEN DropLast(nm.val) ELSE <<>>]
        IN  IF remainingSize > 0 /\ nm.err # ""
            THEN [err |-> nm.err, pos |-> nm.pos]
            ELSE [err |-> "", pos |-> nm.pos, val |-> cs]

\* A skip that reads the size and leaves the cursor where the record starts.
skipNothing(b, p) ==
    LET f == ReadFields(b, p, <<2>>)
    IN  IF f.err # "" THEN [err |-> f.err, pos |-> f.pos]
        ELSE [err |-> "", pos |-> p]

\* The skip path of readThread: the size is read and the cursor moved on by
\* it with Seek, which on a file succeeds beyond the end too.
skipContextSwitch(b, p) ==
    LET f == ReadFields(b, p, <<2>>)
    IN  IF f.err # "" THEN [err |-> f.err, pos |-> f.pos]
        ELSE [err |-> "", pos |-> f.pos + Val16(f.vals[1])]

readBlock(b, p) ==
    LET f == ReadFields(b, p, <<2, 8, 8, 4>>)
    IN  IF f.err # "" THEN [err |-> f.err, pos |-> f.pos]
        ELSE
        LET remainingSize == RemainingSize(Val16(f.vals[1]), 20)
            nm == ReadFull(b, f.pos, remainingSize)
            name == IF remainingSize = 0 THEN <<>>
                    ELSE IF Len(nm.val) > 0 /\ nm.val[Len(nm.val)] = 0
                         THEN DropLast(nm.val)
                    ELSE nm.val
            blk == [Begin |-> f.vals[2], End |-> f.vals[3], ID |-> f.vals[4],
                    Name |-> name, Children |-> <<>>]
        IN  IF remainingSize > 0 /\ nm.err # ""
            THEN [err |-> nm.err, pos |-> nm.pos]
            ELSE [err |-> "", pos |-> nm.pos, val |-> blk]

RECURSIVE readContextSwitchesFrom(_, _, _, _, _, _)
\* The context switch loop of readThread, in its skip or its normal form.
readContextSwitchesFrom(b, p, i, count, skip, acc) ==
    IF ~NatLtU32(i, count) THEN [err |-> "", pos |-> p, val |-> acc]
    ELSE IF skip
         THEN LET Then(s) ==
                      IF s.err # "" THEN [err |-> s.err, pos |-> s.pos]
                      ELSE readContextSwitchesFrom(b, s.pos, i + 1, count, skip, acc)
              IN  Then(skipContextSwitch(b, p))
    ELSE LET Then(c) ==
                 IF c.err # "" THEN [err |-> c.err, pos |-> c.pos]
                 ELSE readContextSwitchesFrom(b, c.pos, i + 1, count, skip,
                                              Append(acc, c.val))
         IN  Then(readContextSwitch(b, p))

RECURSIVE readBlocksFrom(_, _, _, _, _)
readBlocksFrom(b, p, i, count, acc) ==
    IF ~NatLtU32(i, count) THEN [err |-> "", pos |-> p, val |-> acc]
    ELSE LET Then(k) ==
                 IF k.err # "" THEN [err |-> k.err, pos |-> k.pos]
                 ELSE readBlocksFrom(b, k.pos, i + 1, count, Append(acc, k.val))
         IN  Then(readBlock(b, p))

\* readThread reads the name (its uint16 length, then the bytes), the
\* context switches (their uint32 count, then the records, read or skipped)
\* and the blocks (their uint32 count, then the records); each part starts
\* where the one before ended and the first error ends the thread.
readThread(b, p, threadID, options) ==
    LET Done(nm, css, bs) ==
            IF bs.err # "" THEN [err |-> bs.err, pos |-> bs.pos]
            ELSE [err |-> "", pos |-> bs.pos,
                  val |-> [ThreadID |-> threadID, ThreadName |-> nm.val,
                           ContextSwitches |-> css.val, Blocks |-> bs.val]]
        BlocksAfter(nm, css, bc) ==
            IF bc.err # "" THEN [err |-> bc.err, pos |-> bc.pos]
            ELSE Done(nm, css, readBlocksFrom(b, bc.pos, 0, bc.vals[1], <<>>))
        AfterContextSwitches(nm, css) ==
            IF css.err # "" THEN [err |-> css.err, pos |-> css.pos]
            ELSE BlocksAfter(nm, css, ReadFields(b, css.pos, <<4>>))
        ContextSwitchesAfter(nm, cc) ==
            IF cc.err # "" THEN [err |-> cc.err, pos |-> cc.pos]
            ELSE AfterContextSwitches(nm,
                     readContextSwitchesFrom(b, cc.pos, 0, cc.vals[1],
                                             options.SkipContextSwitches, <<>>))
        AfterName(nm) ==
            IF nm.err # "" THEN [err |-> nm.err, pos |-> nm.pos]
            ELSE ContextSwitchesAfter(nm, ReadFields(b, nm.pos, <<4>>))
        NameAfter(ns) ==
            IF ns.err # "" THEN [err |-> ns.err, pos |-> ns.pos]
            ELSE AfterName(ReadFull(b, ns.pos, Val16(ns.vals[1])))
    IN  NameAfter(ReadFields(b, p, <<2>>))

---------------------------------------------------------------------------
(* Reader.readThreads.                                                     *)

\* expectedThreads = 0xFFFFFFFF: "read until we hit signature".
UntilSignature == <<255, 255, 255, 255>>

\* threadsRead == expectedThreads, threadsRead a natural number below 2^31.
NatEqU32(i, w) ==
    w[4] < 128 /\ i = w[1] + 256 * w[2] + 65536 * w[3] + 16777216 * w[4]

\* The end of readThreads, after its loop: the end signature is read and
\* compared; end-of-file is accepted when all expected threads were read.
readEndSignature(b, p, threadsRead, expectedThreads, threads) ==
    LET Then(sg) ==
            IF sg.err # ""
            THEN IF sg.err = "EOF" /\ NatEqU32(threadsRead, expectedThreads)
                 THEN [err |-> "", pos |-> sg.pos, threads |-> threads,
                       threadsRead |-> threadsRead]
                 ELSE [err |-> "failed to read end signature", pos |-> sg.pos]
            ELSE IF sg.vals[1] # U32(EasyProfilerSignature)
                 THEN [err |-> "invalid end signature", pos |-> sg.pos]
            ELSE [err |-> "", pos |-> sg.pos, threads |-> threads,
                  threadsRead |-> threadsRead]
    IN  Then(ReadFields(b, p, <<4>>))

RECURSIVE readThreadsFrom(_, _, _, _, _, _, _)
readThreadsFrom(b, p, threadsRead, expectedThreads, version, threads, options) ==
    IF ~NatLtU32(threadsRead, expectedThreads)
    THEN readEndSignature(b, p, threadsRead, expectedThreads, threads)
    ELSE
    LET AfterThread(threadID, t) ==
            IF t.err # "" THEN [err |-> t.err, pos |-> t.pos]
            ELSE readThreadsFrom(b, t.pos, threadsRead + 1, expectedThreads,
                                 version, Put(threads, threadID, t.val), options)
        ThreadOf(id, threadID) ==
            AfterThread(threadID, readThread(b, id.pos, threadID, options))
        AfterID(id) ==
            IF id.err = "EOF"
            THEN readEndSignature(b, id.pos, threadsRead, expectedThreads, threads)
            ELSE IF id.err # ""
                 THEN [err |-> "failed to read thread ID", pos |-> id.pos]
            ELSE IF SubSeq(id.val, 1, 4) = U32(EasyProfilerSignature)
                    /\ expectedThreads = UntilSignature
                 THEN [err |-> "", pos |-> id.pos, threads |-> threads,
                       threadsRead |-> threadsRead]
            ELSE ThreadOf(id, ZeroExt(id.val, 8))
    IN  AfterID(ReadFull(b, p, IF WLt(version, U32(Version130)) THEN 4 ELSE 8))

\* A readThreads that trusts the header's thread count in every version.
readThreadsByCount(b, p, hdr, options) ==
    readThreadsFrom(b, p, 0, hdr.ThreadsCount, hdr.Version, EmptyMap, options)

readThreads(b, p, hdr, options) ==
    readThreadsFrom(b, p, 0,
                    IF WLt(hdr.Version, U32(Version210)) THEN UntilSignature
                    ELSE hdr.ThreadsCount,
                    hdr.Version, EmptyMap, options)

---------------------------------------------------------------------------
(* Reader.readBookmark, Reader.readBookmarks.                              *)

readBookmark(b, p) ==
    LET f == ReadFields(b, p, <<2, 8, 4>>)
    IN  IF f.err # "" THEN [err |-> f.err, pos |-> f.pos]
        ELSE
        LET remainingSize == RemainingSize(Val16(f.vals[1]), 12)
            tx == ReadFull(b, f.pos, remainingSize)
            bm == [Position |-> f.vals[2], Color |-> f.vals[3],
                   Text |-> IF remainingSize > 0 THEN DropLast(tx.val) ELSE <<>>]
        IN  IF remainingSize > 0 /\ tx.err # ""
            THEN [err |-> tx.err, pos |-> tx.pos]
            ELSE [err |-> "", pos |-> tx.pos, val |-> bm]

RECURSIVE readBookmarksFrom(_, _, _, _, _)
readBookmarksFrom(b, p, i, count, acc) ==
    IF i >= count
    THEN LET sg == ReadFields(b, p, <<4>>)
         IN  IF sg.err # "" THEN [err |-> sg.err, pos |-> sg.pos]
             ELSE IF sg.vals[1] # U32(EasyProfilerSignature)
                  THEN [err |-> "invalid bookmarks end signature", pos |-> sg.pos]
             ELSE [err |-> "", pos |-> sg.pos, val |-> acc]
    ELSE LET Then(m) ==
                 IF m.err # "" THEN [err |-> m.err, pos |-> m.pos]
                 ELSE readBookmarksFrom(b, m.pos, i + 1, count, Append(acc, m.val))
         IN  Then(readBookmark(b, p))

\* A readBookmarks that reads nothing.
NoBookmarks(b, p, hdr) == [err |-> "", pos |-> p, val |-> <<>>]

readBookmarks(b, p, hdr) ==
    readBookmarksFrom(b, p, 0, Val16(hdr.BookmarksCount), <<>>)

---------------------------------------------------------------------------
(* ProfileData (parser/types.go).                                          *)

RECURSIVE SumSeq(_)
SumSeq(s) == IF s = <<>> THEN 0 ELSE Head(s) + SumSeq(Tail(s))

\* A count of the nested blocks alone.
CountNested(blocks) ==
    SumSeq([i \in 1..Len(blocks) |-> Len(blocks[i].Children)])

RECURSIVE countBlocks(_)
\* parser.countBlocks: the number of nodes of a forest of blocks.
countBlocks(blocks) ==
    Len(blocks)
    + SumSeq([i \in 1..Len(blocks) |-> countBlocks(blocks[i].Children)])

RECURSIVE blocksCountOver(_, _)
\* The loop of GetBlocksCount over the threads map.
blocksCountOver(keys, threads) ==
    IF keys = {} THEN 0
    ELSE LET k == CHOOSE x \in keys : TRUE
         IN  countBlocks(threads[k].Blocks) + blocksCountOver(keys \ {k}, threads)

\* ProfileData.GetBlocksCount.
GetBlocksCount(threads) == blocksCountOver(DOMAIN threads, threads)

\* Block.Duration: time.Duration(b.End - b.Begin), a signed 64-bit word.
Duration(block) == WSub(block.End, block.Begin)

\* A total duration that forgets the begin time.
EndTimeOnly(profile) == profile.Header.EndTime

\* ProfileData.GetTotalDuration.
GetTotalDuration(profile) == WSub(profile.Header.EndTime, profile.Header.BeginTime)

---------------------------------------------------------------------------
(* Reader.Parse.  The outcome is [status, err, model]: status "ok" with    *)
(* the model (a one-element sequence) and no error, status "error" with    *)
(* no model (the empty sequence, Go's nil) and the failing step, or        *)
(* status "panic" when the decoder hits a run-time panic.                  *)

Failure(r, step) ==
    [status |-> IF r.err = "panic" THEN "panic" ELSE "error",
     err |-> step, model |-> <<>>, pos |-> r.pos]

\* A Parse without the version check.
AnyVersion(hdr) == TRUE

\* The two validations of Parse: the signature and the version.
ValidSignature(hdr) == hdr.Signature = U32(EasyProfilerSignature)
SupportedVersion(hdr) == ~WLt(hdr.Version, U32(MinCompatibleVersion))

Parse(b, options) ==
    LET Done(h, d, t, m) ==
            IF m.err # "" THEN Failure(m, "failed to read bookmarks")
            ELSE [status |-> "ok", err |-> "", pos |-> m.pos,
                  model |-> << [Header |-> h.hdr,
                                Descriptors |-> d.descs,
                                Threads |-> t.threads,
                                Bookmarks |-> m.val,
                                TotalBlocksCount |-> GetBlocksCount(t.threads),
                                MemoryUsedBytes |-> h.hdr.MemorySize] >>]
        WantBookmarks(h) ==
            /\ ~options.SkipBookmarks
            /\ ~WLt(h.hdr.Version, U32(Version210))
            /\ Val16(h.hdr.BookmarksCount) > 0
        AfterThreads(h, d, t) ==
            IF t.err # "" THEN Failure(t, "failed to read threads")
            ELSE Done(h, d, t,
                      IF WantBookmarks(h) THEN readBookmarks(b, t.pos, h.hdr)
                      ELSE [err |-> "", pos |-> t.pos, val |-> <<>>])
        AfterDescriptors(h, d) ==
            IF d.err # "" THEN Failure(d, "failed to read descriptors")
            ELSE AfterThreads(h, d, readThreads(b, d.pos, h.hdr, options))
        AfterHeader(h) ==
            IF h.err # "" THEN Failure(h, "failed to read header")
            ELSE IF ~ValidSignature(h.hdr)
                 THEN [status |-> "error", err |-> "invalid file signature",
                       model |-> <<>>, pos |-> h.pos]
            ELSE IF ~SupportedVersion(h.hdr)
                 THEN [status |-> "error", err |-> "unsupported version",
                       model |-> <<>>, pos |-> h.pos]
            ELSE AfterDescriptors(h, readDescriptors(b, h.pos, h.hdr))
    IN  AfterHeader(readHeader(b))

---------------------------------------------------------------------------
(* The analysis engine (analyzer/analyzer.go).                             *)
(*                                                                         *)
(* Go iterates a map in an unspecified order and sort.Slice is not stable: *)
(* an operation that ranges over the threads map or sorts yields one of    *)
(* several results, and the operators below give the set of them.          *)
(* A result is [status, val]: "ok" with the list returned, or "panic".     *)

RECURSIVE SortedOrders(_, _, _)
\* The orders (sequences of the indices in I) that sort.Slice may leave l
\* in: no element is before one that less puts before it.  sort.Slice is
\* not stable, so elements that less does not tell apart come in any order.
\* Of several equal elements of l the one with the least index is taken
\* first: exchanging equal elements gives the same list.
SortedOrders(l, I, less) ==
    IF I = {} THEN {<<>>}
    ELSE UNION {{<<i>> \o q : q \in SortedOrders(l, I \ {i}, less)} :
                i \in {k \in I : \A j \in I : /\ ~less[j][k]
                                              /\ l[j] = l[k] => k <= j}}

\* sort.Slice(l, less), less given as less[i][j] over the indices of l.
SortSlice(l, less) ==
    {[k \in 1..Len(l) |-> l[o[k]]] : o \in SortedOrders(l, 1..Len(l), less)}

\* The comparison turned around: shortest first.
ByDurationAscending(l) ==
    [i \in 1..Len(l) |-> [j \in 1..Len(l) |-> SLt(l[i].Duration, l[j].Duration)]]

\* less for "sort by duration, longest first": l[i].Duration > l[j].Duration.
ByDuration(l) ==
    [i \in 1..Len(l) |-> [j \in 1..Len(l) |-> SLt(l[j].Duration, l[i].Duration)]]

RECURSIVE Orders(_)
\* The orders in which a map with the key set K may be ranged over.
Orders(K) ==
    IF K = {} THEN {<<>>}
    ELSE UNION {{<<k>> \o q : q \in Orders(K \ {k})} : k \in K}

RECURSIVE SomeOrder(_)
\* One order of the key set K: what a single range over a map yields when
\* the order makes no difference to what is built from it.
SomeOrder(K) ==
    IF K = {} THEN <<>>
    ELSE LET k == CHOOSE x \in K : TRUE
         IN  <<k>> \o SomeOrder(K \ {k})

\* allBlocks[:limit] after "if limit > len(allBlocks) { limit = len }": a
\* negative limit is a slice bound out of range.
Clamp(l, limit) ==
    IF limit < 0 THEN [status |-> "panic", val |-> <<>>]
    ELSE [status |-> "ok",
          val |-> SubSeq(l, 1, IF limit > Len(l) THEN Len(l) ELSE limit)]

\* The name shown for a block: its own, else its descriptor's.
ResolvedName(block, descs) ==
    IF block.Name = <<>> /\ block.ID \in DOMAIN descs
    THEN descs[block.ID].Name ELSE block.Name

NewBlockInfo(block, descs, threadID, threadName) ==
    [Name |-> ResolvedName(block, descs),
     File |-> IF block.ID \in DOMAIN descs THEN descs[block.ID].File ELSE <<>>,
     Line |-> IF block.ID \in DOMAIN descs THEN descs[block.ID].Line ELSE Zeros(4),
     Duration |-> Duration(block), CallCount |-> 1, ThreadID |-> threadID,
     ThreadName |-> threadName, AvgDuration |-> Zeros(8)]

RECURSIVE analyzeBlocksRecursive(_, _, _, _)
analyzeBlocksRecursive(blocks, descs, threadID, threadName) ==
    IF blocks = <<>> THEN <<>>
    ELSE <<NewBlockInfo(Head(blocks), descs, threadID, threadName)>>
         \o analyzeBlocksRecursive(Head(blocks).Children, descs, threadID, threadName)
         \o analyzeBlocksRecursive(Tail(blocks), descs, threadID, threadName)

\* The blocks of all threads, the threads taken in the given order.
AllBlockInfos(profile, order) ==
    Concat([i \in 1..Len(order) |->
              analyzeBlocksRecursive(profile.Threads[order[i]].Blocks,
                                     profile.Descriptors, order[i],
                                     profile.Threads[order[i]].ThreadName)])

\* Analyzer.GetSlowestBlocks: the results it may return.
GetSlowestBlocks(profile, limit) ==
    LET order == SomeOrder(DOMAIN profile.Threads)
        allBlocks == AllBlockInfos(profile, order)
    IN  {Clamp(sorted, limit) : sorted \in SortSlice(allBlocks, ByDuration(allBlocks))}

RECURSIVE DurationOfForest(_)
\* The durations of the blocks of a forest, nested ones included, added up.
DurationOfForest(blocks) ==
    IF blocks = <<>> THEN Zeros(8)
    ELSE WAdd(WAdd(Duration(Head(blocks)), DurationOfForest(Head(blocks).Children)),
              DurationOfForest(Tail(blocks)))

RECURSIVE calculateThreadDuration(_)
\* The sum of the durations of the given blocks (not of their children).
calculateThreadDuration(blocks) ==
    IF blocks = <<>> THEN Zeros(8)
    ELSE WAdd(Duration(Head(blocks)), calculateThreadDuration(Tail(blocks)))

RECURSIVE CountBelow(_)
\* A countBlocks that starts from 0 instead of len(blocks): only the nested
\* blocks are counted.
CountBelow(blocks) ==
    SumSeq([i \in 1..Len(blocks) |->
              Len(blocks[i].Children) + CountBelow(blocks[i].Children)])

RECURSIVE AnalyzerCountBlocks(_)
\* Analyzer.countBlocks.
AnalyzerCountBlocks(blocks) ==
    Len(blocks)
    + SumSeq([i \in 1..Len(blocks) |-> AnalyzerCountBlocks(blocks[i].Children)])

\* The ThreadStats of one thread, without PercentOfTotal (a float64).
NewThreadStats(thread, threadID) ==
    LET threadDuration == calculateThreadDuration(thread.Blocks)
        blockCount == AnalyzerCountBlocks(thread.Blocks)
    IN  [ThreadID |-> threadID, ThreadName |-> thread.ThreadName,
         TotalDuration |-> threadDuration, BlockCount |-> blockCount,
         ContextSwitches |-> Len(thread.ContextSwitches),
         AvgBlockDuration |-> IF blockCount > 0 THEN SDiv(threadDuration, blockCount)
                              ELSE Zeros(8)]

ByTotalDuration(l) ==
    [i \in 1..Len(l) |->
       [j \in 1..Len(l) |-> SLt(l[j].TotalDuration, l[i].TotalDuration)]]

\* Analyzer.GetThreadStatistics: the results it may return.
GetThreadStatistics(profile) ==
    LET order == SomeOrder(DOMAIN profile.Threads)
        stats == [i \in 1..Len(order) |->
                    NewThreadStats(profile.Threads[order[i]], order[i])]
    IN  {[status |-> "ok", val |-> sorted] :
           sorted \in SortSlice(stats, ByTotalDuration(stats))}

RECURSIVE Digits(_)
\* The decimal digits (ASCII) of an unsigned word, none for zero.
Digits(w) ==
    IF w = Zeros(Len(w)) THEN <<>>
    ELSE Append(Digits(UDiv(w, 10)), 48 + UMod(w, 10))

\* fmt's %d of a signed word.
Decimal(w) ==
    IF w = Zeros(Len(w)) THEN <<48>>
    ELSE IF IsNeg(w) THEN <<45>> \o Digits(WNeg(w))
    ELSE Digits(w)

\* The key of a block in the hotspot map: "name:file:line" with a
\* descriptor, the name alone without.
HotspotKey(block, descs) ==
    IF block.ID \in DOMAIN descs
    THEN ResolvedName(block, descs) \o <<58>> \o descs[block.ID].File
         \o <<58>> \o Decimal(descs[block.ID].Line)
    ELSE ResolvedName(block, descs)

RECURSIVE aggregateTopLevel(_, _, _, _, _)
\* An aggregation that leaves the children of the blocks out.
aggregateTopLevel(blocks, descs, threadID, threadName, blockMap) ==
    IF blocks = <<>> THEN blockMap
    ELSE
    LET block == Head(blocks)
        key == HotspotKey(block, descs)
        added == IF key \in DOMAIN blockMap
                 THEN [blockMap EXCEPT
                         ![key].Duration = WAdd(@, Duration(block)),
                         ![key].CallCount = @ + 1]
                 ELSE Put(blockMap, key,
                          NewBlockInfo(block, descs, threadID, threadName))
    IN  aggregateTopLevel(Tail(blocks), descs, threadID, threadName, added)

RECURSIVE aggregateBlocks(_, _, _, _, _)
aggregateBlocks(blocks, descs, threadID, threadName, blockMap) ==
    IF blocks = <<>> THEN blockMap
    ELSE
    LET block == Head(blocks)
        key == HotspotKey(block, descs)
        added == IF key \in DOMAIN blockMap
                 THEN [blockMap EXCEPT
                         ![key].Duration = WAdd(@, Duration(block)),
                         ![key].CallCount = @ + 1]
                 ELSE Put(blockMap, key,
                          NewBlockInfo(block, descs, threadID, threadName))
        below == aggregateBlocks(block.Children, descs, threadID, threadName, added)
    IN  aggregateBlocks(Tail(blocks), descs, threadID, threadName, below)

RECURSIVE aggregateThreads(_, _, _)
\* The loop of GetHotspots over the threads, taken in the given order.
aggregateThreads(profile, order, blockMap) ==
    IF order = <<>> THEN blockMap
    ELSE aggregateThreads(profile, Tail(order),
             aggregateBlocks(profile.Threads[Head(order)].Blocks,
                             profile.Descriptors, Head(order),
                             profile.Threads[Head(order)].ThreadName, blockMap))

\* A GetHotspots that never fills in the average.
AvgDurationUnset(info) == info.AvgDuration

\* info.AvgDuration = info.Duration / time.Duration(info.CallCount).
AvgDuration(info) ==
    IF info.CallCount > 0 THEN SDiv(info.Duration, info.CallCount)
    ELSE info.AvgDuration

\* Analyzer.GetHotspots: the results it may return.
GetHotspots(profile, limit) ==
    UNION {LET blockMap == aggregateThreads(profile, order, EmptyMap)
               keys == SomeOrder(DOMAIN blockMap)
               hotspots == [i \in 1..Len(keys) |->
                              [blockMap[keys[i]] EXCEPT
                                 !.AvgDuration = AvgDuration(blockMap[keys[i]])]]
           IN  {Clamp(sorted, limit) :
                  sorted \in SortSlice(hotspots, ByDuration(hotspots))} :
           order \in Orders(DOMAIN profile.Threads)}

---------------------------------------------------------------------------
(* Analyzer.AnalyzePerformanceIssues and its four rules.  A               *)
(* PerformanceIssue is modelled without its Description and Location       *)
(* (formatted text).  The float64 comparisons of the rules are made in     *)
(* integers: float64 holds a duration below 2^53 ns exactly, and for the   *)
(* durations of the captures here (below 2^40 ns) a quotient that differs  *)
(* from the threshold differs by far more than the rounding of the         *)
(* division and of the literals 0.10, 0.2 and 0.3.                         *)

\* float64(a) / float64(b) > n / d for signed words a, b and small natural
\* numbers n, d: division by a negative b turns the comparison around, and
\* division by zero gives +Inf for a > 0 and NaN or -Inf otherwise.
RatioAbove(a, b, n, d) ==
    IF b = Zeros(Len(b)) THEN SLt(Zeros(Len(a)), a)
    ELSE IF IsNeg(b) THEN SLt(WMul(a, d), WMul(b, n))
    ELSE SLt(WMul(b, n), WMul(a, d))

\* threshold := 100 * time.Millisecond, and 500 * time.Millisecond, in ns.
LongBlockThreshold == 100000000
HighSeverityThreshold == 500000000

\* threshold := 1000 context switches.
ContextSwitchThreshold == 1000

NewIssue(type, severity, duration, threadID, threadName) ==
    [Type |-> type, Severity |-> severity, Duration |-> duration,
     ThreadID |-> threadID, ThreadName |-> threadName]

RECURSIVE FindLongTopLevel(_, _)
\* A findLongBlocks that does not descend into the children.
FindLongTopLevel(blocks, threshold) ==
    IF blocks = <<>> THEN <<>>
    ELSE (IF SLt(threshold, Duration(Head(blocks))) THEN <<Head(blocks)>> ELSE <<>>)
         \o FindLongTopLevel(Tail(blocks), threshold)

RECURSIVE findLongBlocks(_, _)
\* Analyzer.findLongBlocks: the blocks longer than the threshold, each
\* before the long ones below it.
findLongBlocks(blocks, threshold) ==
    IF blocks = <<>> THEN <<>>
    ELSE (IF SLt(threshold, Duration(Head(blocks))) THEN <<Head(blocks)>> ELSE <<>>)
         \o findLongBlocks(Head(blocks).Children, threshold)
         \o findLongBlocks(Tail(blocks), threshold)

\* The issues of detectLongBlocks for one thread.
LongBlockIssues(thread, threadID) ==
    LET long == findLongBlocks(thread.Blocks, U64(LongBlockThreshold))
    IN  [i \in 1..Len(long) |->
           NewIssue("Long Blocking Operation",
                    IF SLt(U64(HighSeverityThreshold), Duration(long[i]))
                    THEN "high" ELSE "medium",
                    Duration(long[i]), threadID, thread.ThreadName)]

\* Analyzer.detectLongBlocks, the threads ranged over in the given order.
detectLongBlocks(profile, order) ==
    Concat([i \in 1..Len(order) |->
              LongBlockIssues(profile.Threads[order[i]], order[i])])

\* A detectThreadImbalance that reports a ratio of 2.0 as well.
ImbalanceFromTwo(stats) ==
    IF Len(stats) < 2 THEN <<>>
    ELSE IF /\ SLt(Zeros(8), stats[Len(stats)].TotalDuration)
            /\ ~SLt(stats[1].TotalDuration,
                    WMul(stats[Len(stats)].TotalDuration, 2))
         THEN <<NewIssue("Thread Imbalance", "medium",
                         WSub(stats[1].TotalDuration,
                              stats[Len(stats)].TotalDuration),
                         Zeros(8), <<>>)>>
    ELSE <<>>

\* Analyzer.detectThreadImbalance on the list GetThreadStatistics returned.
detectThreadImbalance(stats) ==
    IF Len(stats) < 2 THEN <<>>
    ELSE IF /\ SLt(Zeros(8), stats[Len(stats)].TotalDuration)
            /\ RatioAbove(stats[1].TotalDuration,
                          stats[Len(stats)].TotalDuration, 2, 1)
         THEN <<NewIssue("Thread Imbalance", "medium",
                         WSub(stats[1].TotalDuration,
                              stats[Len(stats)].TotalDuration),
                         Zeros(8), <<>>)>>
    ELSE <<>>

\* Analyzer.detectExcessiveContextSwitches, the threads ranged over in the
\* given order.
detectExcessiveContextSwitches(profile, order) ==
    Concat([i \in 1..Len(order) |->
              IF Len(profile.Threads[order[i]].ContextSwitches)
                   > ContextSwitchThreshold
              THEN <<NewIssue("Excessive Context Switches", "medium", Zeros(8),
                              order[i], profile.Threads[order[i]].ThreadName)>>
              ELSE <<>>])

\* A severity that takes a share of exactly 30% or 20% for the higher one.
HotSeverityFrom(duration, totalDuration) ==
    IF ~RatioAbove(WMul(totalDuration, 3), WMul(duration, 10), 1, 1) THEN "high"
    ELSE IF ~RatioAbove(WMul(totalDuration, 2), WMul(duration, 10), 1, 1)
         THEN "medium"
    ELSE "low"

\* The severity detectHotFunctions gives a share of the total duration.
HotSeverity(duration, totalDuration) ==
    IF RatioAbove(duration, totalDuration, 3, 10) THEN "high"
    ELSE IF RatioAbove(duration, totalDuration, 2, 10) THEN "medium"
    ELSE "low"

\* The top hotspots detectHotFunctions asks for.
HotFunctionsLimit == 10

\* Analyzer.detectHotFunctions on the list GetHotspots(10) returned.
detectHotFunctions(profile, hotspots) ==
    Concat([i \in 1..Len(hotspots) |->
              IF RatioAbove(hotspots[i].Duration, GetTotalDuration(profile), 1, 10)
              THEN <<NewIssue("Hot Function",
                              HotSeverity(hotspots[i].Duration,
                                          GetTotalDuration(profile)),
                              hotspots[i].Duration, Zeros(8), <<>>)>>
              ELSE <<>>])

\* severityOrder := map[string]int{"high": 0, "medium": 1, "low": 2}.
severityOrder(severity) ==
    CASE severity = "high" -> 0
      [] severity = "medium" -> 1
      [] severity = "low" -> 2
      [] OTHER -> 0

\* less for "sort by severity".
BySeverity(l) ==
    [i \in 1..Len(l) |->
       [j \in 1..Len(l) |->
          severityOrder(l[i].Severity) < severityOrder(l[j].Severity)]]

\* The lists the four rules may produce together, before the sort: each
\* rule ranges over the threads map, or sorts, on its own.
UnsortedIssues(profile) ==
    {long \o imbalance \o switches \o hot :
       long \in {detectLongBlocks(profile, o) :
                   o \in Orders(DOMAIN profile.Threads)},
       imbalance \in {detectThreadImbalance(r.val) :
                        r \in GetThreadStatistics(profile)},
       switches \in {detectExcessiveContextSwitches(profile, o) :
                       o \in Orders(DOMAIN profile.Threads)},
       hot \in {detectHotFunctions(profile, r.val) :
                  r \in GetHotspots(profile, HotFunctionsLimit)}}

\* Analyzer.AnalyzePerformanceIssues: the results it may return.
AnalyzePerformanceIssues(profile) ==
    UNION {{[status |-> "ok", val |-> sorted] :
              sorted \in SortSlice(issues, BySeverity(issues))} :
           issues \in UnsortedIssues(profile)}

---------------------------------------------------------------------------
(* ReadOptions (DefaultReadOptions, FastReadOptions).                      *)

DefaultReadOptions ==
    [MaxBlockDepth |-> 0, SampleBlocks |-> 0, SkipContextSwitches |-> FALSE,
     SkipBookmarks |-> FALSE, MaxThreads |-> 0]

FastReadOptions ==
    [MaxBlockDepth |-> 5, SampleBlocks |-> 10, SkipContextSwitches |-> TRUE,
     SkipBookmarks |-> TRUE, MaxThreads |-> 0]

\* Options of a caller of NewReaderWithOptions who wants one thread only.
CappedReadOptions == [DefaultReadOptions EXCEPT !.MaxThreads = 1]

---------------------------------------------------------------------------
(* The file format as the format document lays it out: how a capture is    *)
(* written.  A capture is described by a record of its parts; the declared *)
(* sizes and counts are fields of their own, so that a capture whose       *)
(* declared sizes disagree with its contents can be written too.           *)

Version100 == 16777216

\* The header layout the document gives for a version: the fields after
\* SIGNATURE and VERSION with their widths.
DocHeaderLayout(version) ==
    IF WLt(version, U32(Version130))
    THEN << <<"PID", 4>>, <<"CPUFrequency", 8>>, <<"BeginTime", 8>>,
            <<"EndTime", 8>>, <<"BlocksCount", 4>>, <<"MemorySize", 8>>,
            <<"DescriptorsCount", 4>>, <<"DescriptorsMemorySize", 8>> >>
    ELSE IF WLt(version, U32(Version200))
    THEN << <<"PID", 8>>, <<"CPUFrequency", 8>>, <<"BeginTime", 8>>,
            <<"EndTime", 8>>, <<"BlocksCount", 4>>, <<"MemorySize", 8>>,
            <<"DescriptorsCount", 4>>, <<"DescriptorsMemorySize", 8>> >>
    ELSE IF WLt(version, U32(Version210))
    THEN << <<"PID", 8>>, <<"CPUFrequency", 8>>, <<"BeginTime", 8>>,
            <<"EndTime", 8>>, <<"MemorySize", 8>>,
            <<"DescriptorsMemorySize", 8>>, <<"BlocksCount", 4>>,
            <<"DescriptorsCount", 4>> >>
    ELSE << <<"PID", 8>>, <<"CPUFrequency", 8>>, <<"BeginTime", 8>>,
            <<"EndTime", 8>>, <<"MemorySize", 8>>,
            <<"DescriptorsMemorySize", 8>>, <<"BlocksCount", 4>>,
            <<"DescriptorsCount", 4>>, <<"ThreadsCount", 4>>,
            <<"BookmarksCount", 2>>, <<"Padding", 2>> >>

WriteHeader(hdr) ==
    LET layout == DocHeaderLayout(hdr.Version)
    IN  hdr.Signature \o hdr.Version
        \o Concat([i \in 1..Len(layout) |->
                     SubSeq(hdr[layout[i][1]], 1, layout[i][2])])

WriteDescriptor(d) ==
    LE(d.Size, 2) \o d.ID \o d.Line \o d.Color \o d.Type \o d.Status
    \o LE(d.NameLength, 2) \o d.NameBytes \o d.FileBytes

WriteContextSwitch(c) ==
    LE(c.Size, 2) \o c.ThreadID \o c.Begin \o c.End \o c.NameBytes

WriteBlock(k) ==
    LE(k.Size, 2) \o k.Begin \o k.End \o k.ID \o k.NameBytes

WriteBookmark(m) ==
    LE(m.Size, 2) \o m.Position \o m.Color \o m.TextBytes

\* A thread record; its identifier takes 4 bytes before version 1.3.0.
WriteThread(t, version) ==
    SubSeq(t.ThreadID, 1, IF WLt(version, U32(Version130)) THEN 4 ELSE 8)
    \o LE(Len(t.Name), 2) \o t.Name
    \o t.SwitchesCount
    \o Concat([i \in 1..Len(t.ContextSwitches) |->
                 WriteContextSwitch(t.ContextSwitches[i])])
    \o t.BlocksCount
    \o Concat([i \in 1..Len(t.Blocks) |-> WriteBlock(t.Blocks[i])])

\* The bytes of a capture: header, descriptors, threads, the end of the
\* threads section, bookmarks and their end; cut >= 0 keeps only the first
\* cut bytes (a truncated file).
FileBytes(f) ==
    LET all == WriteHeader(f.hdr)
               \o Concat([i \in 1..Len(f.descs) |-> WriteDescriptor(f.descs[i])])
               \o Concat([i \in 1..Len(f.threads) |->
                            WriteThread(f.threads[i], f.hdr.Version)])
               \o f.term
               \o Concat([i \in 1..Len(f.bookmarks) |-> WriteBookmark(f.bookmarks[i])])
               \o f.bterm
    IN  IF f.cut < 0 THEN all ELSE SubSeq(all, 1, f.cut)

\* The end of the threads section as the document gives it: a 64-bit word
\* whose low 4 bytes are the signature.
EndSignature64 == U32(EasyProfilerSignature) \o Zeros(4)

---------------------------------------------------------------------------
(* The captures the model decodes.  Well-formed records declare the sizes  *)
(* the document asks for; Files below adds truncated captures and captures *)
(* whose declared sizes, counts, signature or version are off.             *)

\* Bounds of the generated captures.
MaxThreadRecords == 2
MaxBlockRecords == 2
MaxLimit == 3

\* uint16 arithmetic is modulo this (var size uint16).
Uint16Modulus == 65536

Nul == <<0>>
CStr(s) == IF s = <<>> THEN <<>> ELSE s \o Nul

Desc(id, line, name, file) ==
    [ID |-> U32(id), Line |-> U32(line), Color |-> U32(255), Type |-> <<1>>,
     Status |-> <<0>>, NameBytes |-> name \o Nul, FileBytes |-> CStr(file),
     Size |-> 16 + Len(name) + 1 + Len(CStr(file)),
     NameLength |-> Len(name) + 1]

Blk(begin, end, id, name) ==
    [Begin |-> U64(begin), End |-> U64(end), ID |-> U32(id),
     NameBytes |-> CStr(name), Size |-> 20 + Len(CStr(name))]

Ctx(tid, begin, end, name) ==
    [ThreadID |-> U64(tid), Begin |-> U64(begin), End |-> U64(end),
     NameBytes |-> CStr(name), Size |-> 24 + Len(CStr(name))]

Bmk(position, text) ==
    [Position |-> U64(position), Color |-> U32(7), TextBytes |-> CStr(text),
     Size |-> 12 + Len(CStr(text))]

Thr(id, name, css, blocks) ==
    [ThreadID |-> U64(id), Name |-> name, ContextSwitches |-> css,
     Blocks |-> blocks, SwitchesCount |-> LE(Len(css), 4),
     BlocksCount |-> LE(Len(blocks), 4)]

\* Header values: those of the document's minimal file, and a set in which
\* every field differs from every other.
HdrDoc ==
    [ZeroHeader EXCEPT !.Signature = U32(EasyProfilerSignature),
                       !.PID = U64(1234), !.BeginTime = U64(16),
                       !.EndTime = U64(32)]
HdrDistinct ==
    [ZeroHeader EXCEPT !.Signature = U32(EasyProfilerSignature),
                       !.PID = U64(7), !.CPUFrequency = U64(11),
                       !.BeginTime = U64(100), !.EndTime = U64(1000),
                       !.BlocksCount = U32(13), !.MemorySize = U64(40),
                       !.DescriptorsMemorySize = U64(50)]

\* A capture of the given version and parts, its header counts those of
\* the parts.
Capture(version, hv, descs, threads, term, bookmarks, bterm) ==
    [hdr |-> [hv EXCEPT !.Version = U32(version),
                        !.DescriptorsCount = LE(Len(descs), 4),
                        !.ThreadsCount = LE(Len(threads), 4),
                        !.BookmarksCount = LE(Len(bookmarks), 2)],
     descs |-> descs, threads |-> threads, term |-> term,
     bookmarks |-> bookmarks, bterm |-> bterm, cut |-> -1]

DescA == Desc(1, 123, <<65>>, <<102, 46, 99>>)
DescB == Desc(2, 5, <<66>>, <<>>)
DescA2 == Desc(1, 7, <<67>>, <<103>>)
DescLists == {<<>>, <<DescA>>, <<DescA, DescB>>, <<DescA, DescA2>>}

\* Blocks: two of descriptor 1 (durations 3 and 2), a named one whose
\* descriptor ID is in no table (duration 3), and two of descriptor 2 that
\* end before they begin (durations -2 and -3).
BlockPool ==
    <<Blk(0, 3, 1, <<>>), Blk(10, 12, 1, <<>>), Blk(0, 3, 9, <<88>>),
      Blk(5, 3, 2, <<>>), Blk(7, 4, 2, <<>>)>>

RECURSIVE SeqsUpTo(_, _)
\* The sequences of at most n elements of the set S.
SeqsUpTo(S, n) ==
    IF n = 0 THEN {<<>>}
    ELSE LET shorter == SeqsUpTo(S, n - 1)
         IN  shorter \cup {Append(q, x) : q \in shorter, x \in S}

BlockLists == SeqsUpTo({BlockPool[i] : i \in 1..Len(BlockPool)}, MaxBlockRecords)

CtxLists == {<<>>, <<Ctx(1, 1, 2, <<99>>), Ctx(1, 4, 6, <<>>)>>}

\* The threads after the first: thread i holds one block of the pool; its
\* identifier is i, or that of the first thread again.
OtherThread(i, id) ==
    Thr(id, <<119, 48 + i>>, <<>>, <<BlockPool[((i - 1) % Len(BlockPool)) + 1]>>)

ThreadLists ==
    {<<>>}
    \cup {<<Thr(1, <<109>>, cs, bl)>>
            \o [i \in 1..n |-> OtherThread(i + 1, IF dup THEN 1 ELSE i + 1)] :
          cs \in CtxLists, bl \in BlockLists, n \in 0..(MaxThreadRecords - 1),
          dup \in BOOLEAN}

FewThreadLists ==
    {<<>>,
     <<Thr(1, <<>>, <<>>, <<>>)>>,
     <<Thr(1, <<109>>, <<Ctx(1, 1, 2, <<99>>)>>, <<BlockPool[1], BlockPool[3]>>),
       Thr(2, <<119>>, <<>>, <<BlockPool[2]>>)>>}

Versions == {MinCompatibleVersion, Version100, Version130, Version200, Version210}

BookmarkLists == {<<>>, <<Bmk(20, <<98>>)>>, <<Bmk(20, <<98>>), Bmk(30, <<>>)>>}

\* The bookmark section's end as the document gives it.
DocBookmarksEnd == <<41, 115, 97, 69>>

Whole ==
    {Capture(Version210, HdrDoc, <<DescA, DescB>>, ts, EndSignature64, <<>>, <<>>) :
       ts \in ThreadLists}
    \cup {Capture(v, hv, ds, ts, term, <<>>, <<>>) :
            v \in Versions, hv \in {HdrDoc, HdrDistinct}, ds \in DescLists,
            ts \in FewThreadLists,
            term \in {EndSignature64, U32(EasyProfilerSignature), <<>>}}
    \cup {Capture(Version210, HdrDistinct, <<DescA>>, ts, term, bs, bt) :
            ts \in FewThreadLists, bs \in BookmarkLists \ {<<>>},
            term \in {EndSignature64, U32(EasyProfilerSignature)},
            bt \in {U32(EasyProfilerSignature), DocBookmarksEnd}}

\* One capture with every kind of record, per version.
Rich(v) ==
    Capture(v, HdrDistinct, <<DescA, DescB>>,
            <<Thr(1, <<109>>, <<Ctx(1, 1, 2, <<99>>)>>, <<BlockPool[1], BlockPool[3]>>),
              Thr(2, <<119>>, <<>>, <<BlockPool[2]>>)>>,
            EndSignature64,
            IF v = Version210 THEN <<Bmk(20, <<98>>)>> ELSE <<>>,
            IF v = Version210 THEN U32(EasyProfilerSignature) ELSE <<>>)

\* Every proper prefix of the rich captures.
Truncated ==
    UNION {{[Rich(v) EXCEPT !.cut = k] : k \in 0..(Len(FileBytes(Rich(v))) - 1)} :
           v \in Versions \ {MinCompatibleVersion}}

\* The signature bytes in the order the document's minimal file prints
\* them (45 61 73 79), and other words that are not the signature.
PrintedSignature == <<69, 97, 115, 121>>
BadSignatures == {PrintedSignature, Zeros(4), DocBookmarksEnd}
BadVersions == {LE(MinCompatibleVersion - 1, 4), Zeros(4)}

BadHeader ==
    {[Rich(v) EXCEPT !.hdr.Signature = g, !.cut = k] :
       v \in Versions, g \in BadSignatures, k \in {-1, 4, 8, 30}}
    \cup {[Rich(Version100) EXCEPT !.hdr.Version = w, !.cut = k] :
            w \in BadVersions, k \in {-1, 8, 30}}
    \cup {[Capture(Version210, HdrDoc, <<>>, <<>>, EndSignature64, <<>>, <<>>)
             EXCEPT !.hdr.Signature = PrintedSignature]}

\* The bytes a record's variable part takes when its declared size is
\* size and its fixed part is fixed: what a uint16 subtraction leaves.
Swallowed(size, fixed) == [i \in 1..((size - fixed) % Uint16Modulus) |-> 255]

\* Records whose declared size is smaller than their fixed fields, alone
\* and followed by the bytes their wrapped remaining size asks for.
ShortDescs ==
    UNION {{[DescA EXCEPT !.Size = z, !.FileBytes = fb] :
              fb \in {<<>>, Swallowed(z, 16 + DescA.NameLength)}} :
           z \in {0, 16, 17}}
NoNameDescs ==
    {[DescA EXCEPT !.Size = z, !.NameLength = 0, !.NameBytes = <<>>,
                   !.FileBytes = Zeros(z - 16)] : z \in {16, 17}}
ShortBlocks ==
    UNION {{[BlockPool[1] EXCEPT !.Size = z, !.NameBytes = nb] :
              nb \in {<<>>, Swallowed(z, 20)}} : z \in {0, 19}}
ShortCtxs ==
    UNION {{[Ctx(1, 1, 2, <<>>) EXCEPT !.Size = z, !.NameBytes = nb] :
              nb \in {<<>>, Swallowed(z, 24)}} : z \in {0, 23}}
ShortBmks ==
    UNION {{[Bmk(20, <<>>) EXCEPT !.Size = z, !.TextBytes = tb] :
              tb \in {<<>>, Swallowed(z, 12)}} : z \in {0, 11}}

BadRecords ==
    {Capture(v, HdrDoc, <<d>>, <<>>, EndSignature64, <<>>, <<>>) :
       v \in {Version100, Version210}, d \in ShortDescs \cup NoNameDescs}
    \cup {Capture(v, HdrDoc, <<DescA>>, <<Thr(1, <<109>>, <<>>, <<k>>)>>,
                  EndSignature64, <<>>, <<>>) :
            v \in {Version130, Version210}, k \in ShortBlocks}
    \cup {Capture(v, HdrDoc, <<DescA>>, <<Thr(1, <<109>>, <<c>>, <<>>)>>,
                  EndSignature64, <<>>, <<>>) :
            v \in {Version130, Version210}, c \in ShortCtxs}
    \cup {Capture(Version210, HdrDoc, <<>>, <<>>, EndSignature64, <<m>>,
                  U32(EasyProfilerSignature)) : m \in ShortBmks}

\* Headers that declare more records than the file holds.
BadCounts ==
    {[Rich(v) EXCEPT !.hdr.DescriptorsCount = n] :
       v \in {Version100, Version210}, n \in {LE(3, 4), UntilSignature}}
    \cup {[Rich(Version210) EXCEPT !.hdr.ThreadsCount = n] :
            n \in {LE(1, 4), LE(3, 4), UntilSignature}}
    \cup {[Rich(Version210) EXCEPT !.hdr.BookmarksCount = n] :
            n \in {LE(0, 2), LE(2, 2)}}
    \cup {[Rich(v) EXCEPT !.term = Zeros(w)] :
            v \in {Version100, Version210}, w \in {4, 8}}

Files == Whole \cup Truncated \cup BadHeader \cup BadRecords \cup BadCounts

---------------------------------------------------------------------------
(* The state: one decoding session.  file is the capture on disk and       *)
(* options the ReadOptions of the Reader; ret is what Parse returned; out  *)
(* is what the last analysis call returned.                                *)
(* currentProfile and currentAnalyzer are the globals of main.go; reader   *)
(* is the Reader's cursor and counters while Parse runs step by step.      *)

VARIABLES file, options, pc, ret, out, currentProfile, currentAnalyzer, reader

vars == <<file, options, pc, ret, out, currentProfile, currentAnalyzer, reader>>

NoRet == [status |-> "none", err |-> "", model |-> <<>>, pos |-> 0]
NoOut == [op |-> "none", limit |-> 0, status |-> "none", val |-> <<>>]

\* The Reader before Parse: its cursor at the start of the file, no header
\* read, and the counters of its loops at zero.
NoReader ==
    [pos |-> 0, hdr |-> ZeroHeader, i |-> 0, count |-> Zeros(4),
     threadsRead |-> 0]

Init ==
    /\ file \in Files
    /\ options \in {DefaultReadOptions, FastReadOptions, CappedReadOptions}
    /\ pc = "start"
    /\ ret = NoRet
    /\ out = NoOut
    /\ currentProfile = <<>>
    /\ currentAnalyzer = <<>>
    /\ reader = NoReader

\* reader.Parse() on a fresh Reader over the file.
DoParse ==
    /\ pc = "start"
    /\ ret' = Parse(FileBytes(file), options)
    /\ pc' = CASE ret'.status = "ok" -> "loaded"
               [] ret'.status = "panic" -> "crashed"
               [] OTHER -> "failed"
    /\ UNCHANGED <<file, options, out, currentProfile, currentAnalyzer, reader>>

\* The limits an analysis call is made with; the tools' default is 10.
DefaultLimit == 10
Limits == (-1..MaxLimit) \cup {DefaultLimit}

\* An analysis call on the model Parse returned; a panic ends the process.
Answer(op, limit, r) ==
    /\ out' = [op |-> op, limit |-> limit, status |-> r.status, val |-> r.val]
    /\ pc' = IF r.status = "panic" THEN "crashed" ELSE "loaded"
    /\ UNCHANGED <<file, options, ret, currentProfile, currentAnalyzer, reader>>

DoGetSlowestBlocks ==
    /\ pc = "loaded"
    /\ \E limit \in Limits :
         \E r \in GetSlowestBlocks(ret.model[1], limit) :
            Answer("GetSlowestBlocks", limit, r)

DoGetThreadStatistics ==
    /\ pc = "loaded"
    /\ \E r \in GetThreadStatistics(ret.model[1]) :
          Answer("GetThreadStatistics", 0, r)

DoGetHotspots ==
    /\ pc = "loaded"
    /\ \E limit \in Limits :
         \E r \in GetHotspots(ret.model[1], limit) :
            Answer("GetHotspots", limit, r)

DoAnalyzePerformanceIssues ==
    /\ pc = "loaded"
    /\ \E r \in AnalyzePerformanceIssues(ret.model[1]) :
          Answer("AnalyzePerformanceIssues", 0, r)

Next ==
    \/ DoParse
    \/ DoGetSlowestBlocks
    \/ DoGetThreadStatistics
    \/ DoGetHotspots
    \/ DoAnalyzePerformanceIssues

Spec == Init /\ [][Next]_vars

---------------------------------------------------------------------------
(* The tool server (main.go): the globals currentProfile and              *)
(* currentAnalyzer, which loadProfileHandler sets together, and the five   *)
(* tool handlers.  out is the last tool result: its status is "ok" for a   *)
(* text result, "panic" for a handler that panicked (the server is built   *)
(* without a recovery option, so the process ends), and the error text     *)
(* for an error result.  pc is "start" until a load has succeeded.         *)

NotLoadedError == "No profile loaded. Use load_profile first."
OpenError == "Failed to open file"
ParseError == "Failed to parse profile"

\* The captures the session's load_profile calls name.
SessionFiles ==
    {Capture(Version210, HdrDoc, <<DescA, DescB>>, ts, EndSignature64, <<>>, <<>>) :
       ts \in FewThreadLists}
    \cup {Capture(Version210, HdrDoc, <<DescA>>, <<>>, U32(EasyProfilerSignature),
                  <<>>, <<>>),
          Capture(MinCompatibleVersion - 1, HdrDoc, <<>>, <<>>, EndSignature64,
                  <<>>, <<>>)}

SessionInit ==
    /\ file \in SessionFiles
    /\ options = DefaultReadOptions
    /\ pc = "start"
    /\ ret = NoRet
    /\ out = NoOut
    /\ currentProfile = <<>>
    /\ currentAnalyzer = <<>>
    /\ reader = NoReader

\* analyzer.NewAnalyzer.
NewAnalyzer(profile) == [profile |-> profile]

\* A loadProfileHandler that forgets the loaded profile when decoding fails.
LoadProfileClearing ==
    /\ pc # "crashed"
    /\ \E f \in SessionFiles, fastMode \in BOOLEAN :
         /\ file' = f
         /\ options' = IF fastMode THEN FastReadOptions ELSE DefaultReadOptions
         /\ ret' = Parse(FileBytes(f), options')
    /\ currentProfile' = IF ret'.status = "ok" THEN ret'.model ELSE <<>>
    /\ currentAnalyzer' = IF ret'.status = "ok" THEN <<NewAnalyzer(ret'.model[1])>>
                        ELSE <<>>
    /\ pc' = CASE ret'.status = "ok" -> "loaded"
               [] ret'.status = "panic" -> "crashed"
               [] OTHER -> pc
    /\ out' = [op |-> "load_profile", limit |-> 0,
               status |-> IF ret'.status = "error" THEN ParseError
                          ELSE ret'.status,
               val |-> <<>>]
    /\ UNCHANGED reader

\* loadProfileHandler on a path that cannot be opened.
LoadMissingFile ==
    /\ pc # "crashed"
    /\ out' = [op |-> "load_profile", limit |-> 0, status |-> OpenError,
               val |-> <<>>]
    /\ UNCHANGED <<file, options, pc, ret, currentProfile, currentAnalyzer, reader>>

\* loadProfileHandler on a file that opens.
LoadProfile ==
    /\ pc # "crashed"
    /\ \E f \in SessionFiles, fastMode \in BOOLEAN :
         /\ file' = f
         /\ options' = IF fastMode THEN FastReadOptions ELSE DefaultReadOptions
         /\ ret' = Parse(FileBytes(f), options')
    /\ currentProfile' = IF ret'.status = "ok" THEN ret'.model ELSE currentProfile
    /\ currentAnalyzer' = IF ret'.status = "ok" THEN <<NewAnalyzer(ret'.model[1])>>
                        ELSE currentAnalyzer
    /\ pc' = CASE ret'.status = "ok" -> "loaded"
               [] ret'.status = "panic" -> "crashed"
               [] OTHER -> pc
    /\ out' = [op |-> "load_profile", limit |-> 0,
               status |-> IF ret'.status = "error" THEN ParseError
                          ELSE ret'.status,
               val |-> <<>>]
    /\ UNCHANGED reader

\* The start of every analysis handler: if currentAnalyzer == nil.
NotLoaded(op) ==
    /\ currentAnalyzer = <<>>
    /\ out' = [op |-> op, limit |-> 0, status |-> NotLoadedError, val |-> <<>>]
    /\ UNCHANGED <<file, options, pc, ret, currentProfile, currentAnalyzer, reader>>

\* The rest of an analysis handler: the analyzer's result is formatted.
Reply(op, limit, r) ==
    /\ out' = [op |-> op, limit |-> limit, status |-> r.status, val |-> r.val]
    /\ pc' = IF r.status = "panic" THEN "crashed" ELSE pc
    /\ UNCHANGED <<file, options, ret, currentProfile, currentAnalyzer, reader>>

getSlowestBlocksHandler ==
    /\ pc # "crashed"
    /\ \/ NotLoaded("get_slowest_blocks")
       \/ /\ currentAnalyzer # <<>>
          /\ \E limit \in Limits :
               \E r \in GetSlowestBlocks(currentAnalyzer[1].profile, limit) :
                  Reply("get_slowest_blocks", limit, r)

getThreadStatisticsHandler ==
    /\ pc # "crashed"
    /\ \/ NotLoaded("get_thread_statistics")
       \/ /\ currentAnalyzer # <<>>
          /\ \E r \in GetThreadStatistics(currentAnalyzer[1].profile) :
                Reply("get_thread_statistics", 0, r)

getHotspotsHandler ==
    /\ pc # "crashed"
    /\ \/ NotLoaded("get_hotspots")
       \/ /\ currentAnalyzer # <<>>
          /\ \E limit \in Limits :
               \E r \in GetHotspots(currentAnalyzer[1].profile, limit) :
                  Reply("get_hotspots", limit, r)

analyzePerformanceIssuesHandler ==
    /\ pc # "crashed"
    /\ \/ NotLoaded("analyze_performance_issues")
       \/ /\ currentAnalyzer # <<>>
          /\ \E r \in AnalyzePerformanceIssues(currentAnalyzer[1].profile) :
                Reply("analyze_performance_issues", 0, r)

SessionNext ==
    \/ LoadMissingFile
    \/ LoadProfile
    \/ getSlowestBlocksHandler
    \/ getThreadStatisticsHandler
    \/ getHotspotsHandler
    \/ analyzePerformanceIssuesHandler

SessionSpec == SessionInit /\ [][SessionNext]_vars

---------------------------------------------------------------------------
(* The analyzer on models built in memory (analyzer.NewAnalyzer on any     *)
(* ProfileData): blocks with children, which the reader never builds,      *)
(* durations around the thresholds of the rules, and more buckets than     *)
(* the ten detectHotFunctions asks for.                                    *)

\* The depth of the deepest block tree.
MaxDepth == 3

\* The most threads of a model with unequal threads.
MaxUnequalThreads == 3

NsPerMs == 1000000

\* A block of the given duration in ns (ending before it began, for a
\* negative one), with a run-time name.
TimedBlock(duration, name, children) ==
    [Begin |-> IF duration < 0 THEN U64(-duration) ELSE Zeros(8),
     End |-> IF duration < 0 THEN Zeros(8) ELSE U64(duration),
     ID |-> U32(7), Name |-> name, Children |-> children]

NewThread(threadID, name, contextSwitches, blocks) ==
    [ThreadID |-> U64(threadID), ThreadName |-> name, ContextSwitches |-> contextSwitches, Blocks |-> blocks]

\* parser.NewProfileData with the given threads and total duration in ns.
NewProfileData(totalDuration, threads) ==
    [Header |-> [ZeroHeader EXCEPT !.EndTime = U64(totalDuration)],
     Descriptors |-> EmptyMap, Threads |-> threads, Bookmarks |-> <<>>,
     TotalBlocksCount |-> GetBlocksCount(threads), MemoryUsedBytes |-> Zeros(8)]

\* The threads 1..Len(ts) of a model.
ThreadMap(ts) == [id \in {U64(i) : i \in 1..Len(ts)} |->
                    ts[CHOOSE i \in 1..Len(ts) : U64(i) = id]]

RECURSIVE Chain(_)
\* Blocks of the durations ds, each the only child of the one before.
Chain(ds) ==
    IF ds = <<>> THEN <<>>
    ELSE <<TimedBlock(Head(ds), <<66>>, Chain(Tail(ds)))>>

\* Durations around the thresholds of detectLongBlocks.
LongDurations ==
    {100 * NsPerMs, 100 * NsPerMs + 1, 500 * NsPerMs, 600 * NsPerMs,
     -600 * NsPerMs}

\* Two threads: a chain of nested blocks, and one block beside a long one.
LongBlockProfiles ==
    {NewProfileData(2000 * NsPerMs,
        ThreadMap(<<NewThread(1, <<109>>, <<>>, Chain(ds)),
                    NewThread(2, <<119>>, <<>>,
                              <<TimedBlock(d, <<66>>, <<>>),
                                TimedBlock(600 * NsPerMs, <<66>>, <<>>)>>)>>)) :
       ds \in SeqsUpTo(LongDurations, MaxDepth) \ {<<>>},
       d \in {100 * NsPerMs, 500 * NsPerMs}}

\* Per-thread totals around the ratio 2.0 of detectThreadImbalance.
ThreadTotals == {-2, 0, 2, 3, 4, 5}

\* Threads whose top-level blocks last the given totals: the first thread
\* has two blocks, the second of them with a child that does not count.
ImbalanceProfiles ==
    {NewProfileData(total,
        ThreadMap([i \in 1..Len(ts) |->
           NewThread(i, <<119, 48 + i>>, <<>>,
              IF i = 1
              THEN <<TimedBlock(1, <<66>>, <<>>),
                     TimedBlock(ts[i] - 1, <<66>>,
                                <<TimedBlock(9, <<66>>, <<>>)>>)>>
              ELSE <<TimedBlock(ts[i], <<66>>, <<>>)>>)])) :
       ts \in SeqsUpTo(ThreadTotals, MaxUnequalThreads) \ {<<>>},
       total \in {20, 1000}}

\* The number of buckets of the models with more than ten buckets.
ManyBuckets == 11

\* Shares of a total of 100 ns around the thresholds of detectHotFunctions.
Shares == {10, 11, 20, 21, 30, 31}

\* One thread with a block per bucket, named 65, 66, ... in turn; bucket
\* of share s[i], the first bucket called twice.
BucketThread(s) ==
    NewThread(1, <<109>>, <<>>,
       <<TimedBlock(1, <<65>>, <<>>)>>
       \o [i \in 1..Len(s) |->
             TimedBlock(IF i = 1 THEN s[i] - 1 ELSE s[i], <<64 + i>>, <<>>)])

\* The larger buckets of the models with many buckets: two high, three
\* medium and low ones.
LargeShare(i) == IF i <= 2 THEN 40 ELSE IF i <= 5 THEN 25 ELSE 15

HotProfiles ==
    {NewProfileData(100, ThreadMap(<<BucketThread(s)>>)) :
       s \in SeqsUpTo(Shares, 2) \ {<<>>}}
    \cup {NewProfileData(100, ThreadMap(<<BucketThread(
                [i \in 1..ManyBuckets |->
                   IF i <= ManyBuckets - 2 THEN LargeShare(i)
                   ELSE IF i = ManyBuckets - 1 THEN x ELSE y])>>)) :
            x \in {10, 11, 12}, y \in {11, 12}}
    \cup {NewProfileData(total, ThreadMap(<<BucketThread(<<5, 3>>)>>)) :
            total \in {0, -10}}

\* A thread with the given number of context switches beside a busy one.
SwitchProfiles ==
    {NewProfileData(1000 * NsPerMs,
        ThreadMap(<<NewThread(1, <<109>>,
                       [i \in 1..n |->
                          [ThreadID |-> U64(2), Begin |-> U64(i),
                           End |-> U64(i + 1), Name |-> <<>>]],
                       <<TimedBlock(200 * NsPerMs, <<66>>, <<>>)>>),
                    NewThread(2, <<119>>, <<>>,
                       <<TimedBlock(600 * NsPerMs, <<67>>, <<>>)>>)>>)) :
       n \in {ContextSwitchThreshold, ContextSwitchThreshold + 1}}

\* The issues of more than one rule and of more than twelve in all: as
\* many long blocks of 200 ms as there are buckets above, a second thread
\* of 50 ms, and a total duration that the long blocks exceed.
ManyIssuesProfile ==
    NewProfileData(2000 * NsPerMs,
        ThreadMap(<<NewThread(1, <<109>>, <<>>,
                       [i \in 1..ManyBuckets |->
                          TimedBlock(200 * NsPerMs, <<66>>, <<>>)]),
                    NewThread(2, <<119>>, <<>>,
                       <<TimedBlock(50 * NsPerMs, <<67>>, <<>>)>>)>>))

\* A descriptor as readDescriptor decodes it.
NewDescriptor(id, line, name, fileName) ==
    [ID |-> U32(id), Line |-> U32(line), Color |-> U32(255), Type |-> <<1>>,
     Status |-> <<1>>, Name |-> name, File |-> fileName]

\* Descriptor 1 is "A" at "b:c", line 1; descriptor 2 is "A:b" at "c",
\* line 1.
KeyDescriptors ==
    [id \in {U32(1), U32(2)} |->
       IF id = U32(1) THEN NewDescriptor(1, 1, <<65>>, <<98, 58, 99>>)
       ELSE NewDescriptor(2, 1, <<65, 58, 98>>, <<99>>)]

\* Blocks of descriptor 1 (unnamed and named "A"), of descriptor 2, and
\* of no descriptor, named "A:b:c:1" and "A".
KeyBlocks ==
    {[TimedBlock(d, name, <<>>) EXCEPT !.ID = U32(id)] :
       d \in {2, 3},
       name \in {<<>>, <<65>>, <<65, 58, 98, 58, 99, 58, 49>>},
       id \in {1, 2, 7}}

\* Models of one thread and two blocks, with descriptors.
KeyProfiles ==
    {[NewProfileData(100, ThreadMap(<<NewThread(1, <<109>>, <<>>, <<x, y>>)>>))
        EXCEPT !.Descriptors = KeyDescriptors] :
       x \in {[TimedBlock(2, <<>>, <<>>) EXCEPT !.ID = U32(1)]}
              \cup {[TimedBlock(2, <<65>>, <<>>) EXCEPT !.ID = U32(7)]},
       y \in KeyBlocks}

AnalyzerProfiles ==
    LongBlockProfiles \cup ImbalanceProfiles \cup HotProfiles \cup SwitchProfiles
    \cup {ManyIssuesProfile} \cup KeyProfiles

\* The state after analyzer.NewAnalyzer(profile): pc is "loaded" while the
\* analyzer waits for a call and "answered" when out holds its result.
AnalyzerInit ==
    /\ file = Capture(Version210, HdrDoc, <<>>, <<>>, EndSignature64, <<>>, <<>>)
    /\ options = DefaultReadOptions
    /\ pc = "loaded"
    /\ ret \in {[status |-> "ok", err |-> "", model |-> <<p>>, pos |-> 0] :
                 p \in AnalyzerProfiles}
    /\ out = NoOut
    /\ currentProfile = <<>>
    /\ currentAnalyzer = <<>>
    /\ reader = NoReader

\* A call of a method of the analyzer returns r, or panics.
Return(op, limit, r) ==
    /\ out' = [op |-> op, limit |-> limit, status |-> r.status, val |-> r.val]
    /\ pc' = IF r.status = "panic" THEN "crashed" ELSE "answered"
    /\ UNCHANGED <<file, options, ret, currentProfile, currentAnalyzer, reader>>

CallGetSlowestBlocks ==
    /\ pc = "loaded"
    /\ \E limit \in Limits :
         \E r \in GetSlowestBlocks(ret.model[1], limit) :
            Return("GetSlowestBlocks", limit, r)

CallGetThreadStatistics ==
    /\ pc = "loaded"
    /\ \E r \in GetThreadStatistics(ret.model[1]) :
          Return("GetThreadStatistics", 0, r)

CallGetHotspots ==
    /\ pc = "loaded"
    /\ \E limit \in Limits :
         \E r \in GetHotspots(ret.model[1], limit) :
            Return("GetHotspots", limit, r)

CallAnalyzePerformanceIssues ==
    /\ pc = "loaded"
    /\ \E r \in AnalyzePerformanceIssues(ret.model[1]) :
          Return("AnalyzePerformanceIssues", 0, r)

\* The caller has taken the result; the analyzer is as it was.
NextCall ==
    /\ pc = "answered"
    /\ pc' = "loaded"
    /\ out' = NoOut
    /\ UNCHANGED <<file, options, ret, currentProfile, currentAnalyzer, reader>>

AnalyzerNext ==
    \/ CallGetSlowestBlocks
    \/ CallGetThreadStatistics
    \/ CallGetHotspots
    \/ CallAnalyzePerformanceIssues
    \/ NextCall

AnalyzerSpec == AnalyzerInit /\ [][AnalyzerNext]_vars


---------------------------------------------------------------------------
(* Properties of Parse.                                                    *)

\* What Parse was given, and what it returned on success.
Input == FileBytes(file)
Parsed == pc # "start"
Loaded == ret.status = "ok"
Model == ret.model[1]

\* C1: Parse returns an error and no model when the first 32-bit
\* little-endian word of the input is not the signature 0x45617379, or when
\* the version word after it is below 0x00010000.
C1_BadSignatureOrVersionRejected ==
    (/\ Parsed
     /\ Len(Input) >= 8
     /\ \/ SubSeq(Input, 1, 4) # U32(EasyProfilerSignature)
        \/ WLt(SubSeq(Input, 5, 8), U32(MinCompatibleVersion)))
    => ret.status = "error" /\ ret.model = <<>>

\* A whole capture with a good signature and a version below the floor has
\* been rejected for its version.
C1_Witness ==
    /\ pc = "failed"
    /\ file.cut < 0
    /\ file.hdr.Signature = U32(EasyProfilerSignature)
    /\ file.hdr.Version = LE(MinCompatibleVersion - 1, 4)
    /\ ret.err = "unsupported version"

\* C2: Parse is all-or-nothing for every input: it ends with a complete
\* model and no error, or with no model and an error; it never crashes.
C2_AllOrNothing ==
    Parsed => \/ ret.status = "ok" /\ ret.model # <<>> /\ ret.err = ""
              \/ ret.status = "error" /\ ret.model = <<>> /\ ret.err # ""

\* A descriptor with name length 0 has made Parse panic.
C2_PanicOnEmptyName ==
    /\ pc = "crashed"
    /\ ret.status = "panic"
    /\ file.cut < 0
    /\ Len(file.descs) = 1
    /\ file.descs[1].NameLength = 0

\* C4: a header written in the layout of its version decodes to the values
\* written, whichever of the four layouts it is; the thread count, the
\* bookmark count and the padding are taken from the input in the newest
\* layout only and are zero otherwise.
C4_HeaderRoundTrip ==
    Loaded =>
      LET layout == DocHeaderLayout(file.hdr.Version)
          written == {"Signature", "Version"}
                     \cup {layout[i][1] : i \in 1..Len(layout)}
      IN  \A f \in DOMAIN ZeroHeader :
             Model.Header[f] = IF f \in written THEN file.hdr[f] ELSE ZeroHeader[f]

\* A header of the oldest layout whose fields all differ has been decoded,
\* from a capture that gives a thread count its layout does not hold.
C4_Witness ==
    /\ pc = "loaded"
    /\ file.hdr.Version = U32(Version100)
    /\ file.hdr.MemorySize = U64(40)
    /\ file.hdr.DescriptorsMemorySize = U64(50)
    /\ file.hdr.ThreadsCount # Zeros(4)
    /\ Model.Header.BlocksCount = U32(13)

\* C5: a descriptor whose declared size is smaller than 16 + name_length is
\* rejected with an error, however many bytes follow it.
C5_ShortDescriptorRejected ==
    (/\ Parsed
     /\ file.cut < 0
     /\ Len(file.descs) = 1
     /\ file.hdr.DescriptorsCount = U32(1)
     /\ file.descs[1].Size < 16 + file.descs[1].NameLength)
    => ret.status = "error"

\* Such a descriptor, followed by the bytes its wrapped remaining size asks
\* for, has been accepted.
C5_ShortDescriptorAccepted ==
    /\ pc = "loaded"
    /\ Len(file.descs) = 1
    /\ file.descs[1].Size = 17
    /\ file.descs[1].NameLength = 2
    /\ Len(Model.Descriptors[file.descs[1].ID].File) = Uint16Modulus - 2

\* A capture with nothing after its header but the end of the thread
\* section: no descriptors, no threads, no bookmarks.
EmptyCapture ==
    /\ file.cut < 0
    /\ file.hdr.Signature = U32(EasyProfilerSignature)
    /\ ~WLt(file.hdr.Version, U32(MinCompatibleVersion))
    /\ file.descs = <<>> /\ file.hdr.DescriptorsCount = Zeros(4)
    /\ file.threads = <<>> /\ file.hdr.ThreadsCount = Zeros(4)
    /\ file.bookmarks = <<>> /\ file.hdr.BookmarksCount = Zeros(2)
    /\ file.bterm = <<>>

\* C6: an empty capture decodes, in every header family and whether the
\* thread section ends with the terminator or with the end of the stream,
\* to a model with no descriptors, threads or bookmarks and 0 events.
C6_EmptyCaptureDecodes ==
    (Parsed /\ EmptyCapture /\ file.term \in {EndSignature64, <<>>})
    => /\ Loaded
       /\ DOMAIN Model.Descriptors = {}
       /\ DOMAIN Model.Threads = {}
       /\ Model.Bookmarks = <<>>
       /\ Model.TotalBlocksCount = 0

\* An empty capture of an older family that ends with the stream has been
\* rejected.
C6_EndOfStreamRejected ==
    /\ pc = "failed"
    /\ EmptyCapture
    /\ file.term = <<>>
    /\ file.hdr.Version = U32(Version200)
    /\ ret.err = "failed to read threads"

\* The minimal version-2.1.0 file of the format document, byte for byte.
DocMinimalFile ==
    << 69, 97, 115, 121,
       0, 0, 1, 2,
       210, 4, 0, 0, 0, 0, 0, 0,
       0, 0, 0, 0, 0, 0, 0, 0,
       16, 0, 0, 0, 0, 0, 0, 0,
       32, 0, 0, 0, 0, 0, 0, 0,
       0, 0, 0, 0, 0, 0, 0, 0,
       0, 0, 0, 0, 0, 0, 0, 0,
       0, 0, 0, 0,
       0, 0, 0, 0,
       0, 0, 0, 0,
       0, 0,
       0, 0,
       121, 115, 97, 69, 0, 0, 0, 0 >>

\* The same file with the signature in little-endian byte order, as its
\* END_SIGNATURE line has it.
DocMinimalFileLE == U32(EasyProfilerSignature) \o SubSeq(DocMinimalFile, 5, Len(DocMinimalFile))

\* The model of the minimal file: 16 ns long, no threads, no descriptors.
MinimalModel ==
    /\ Loaded
    /\ GetTotalDuration(Model) = U64(16)
    /\ DOMAIN Model.Threads = {}
    /\ DOMAIN Model.Descriptors = {}

---------------------------------------------------------------------------
(* Properties of the analysis operations.                                  *)

RECURSIVE DurationsOf(_)
\* The durations of the blocks of a forest, nested ones included.
DurationsOf(blocks) ==
    IF blocks = <<>> THEN <<>>
    ELSE <<Duration(Head(blocks))>> \o DurationsOf(Head(blocks).Children)
         \o DurationsOf(Tail(blocks))

RECURSIVE DurationsOver(_, _)
DurationsOver(keys, threads) ==
    IF keys = {} THEN <<>>
    ELSE LET k == CHOOSE x \in keys : TRUE
         IN  DurationsOf(threads[k].Blocks) \o DurationsOver(keys \ {k}, threads)

\* The durations of all events of the decoded model.
ModelDurations == DurationsOver(DOMAIN Model.Threads, Model.Threads)

\* How many entries of the list q of durations satisfy d < entry, and how
\* many are equal to d.
Longer(q, d) == Cardinality({i \in 1..Len(q) : SLt(d, q[i])})
Same(q, d) == Cardinality({i \in 1..Len(q) : q[i] = d})

ListedDurations == [i \in 1..Len(out.val) |-> out.val[i].Duration]

\* The list returned has non-increasing durations.
NonIncreasing ==
    \A i, j \in 1..Len(out.val) :
       i < j => ~SLt(out.val[i].Duration, out.val[j].Duration)

\* C3: the per-thread event counts of threadStatistics add up to the
\* model's total event count.
C3_BlockCountsSum ==
    out.op = "GetThreadStatistics"
    => /\ out.status = "ok"
       /\ SumSeq([i \in 1..Len(out.val) |-> out.val[i].BlockCount])
            = Model.TotalBlocksCount

\* threadStatistics has answered for two threads holding three events.
C3_Witness ==
    /\ out.op = "GetThreadStatistics"
    /\ Len(out.val) = 2
    /\ out.val[1].BlockCount = 2
    /\ out.val[2].BlockCount = 1
    /\ Model.TotalBlocksCount = 3

\* C8: for N >= 0, slowestEvents(N) returns min(N, total event count)
\* events, their durations non-increasing, and every event left out is no
\* longer than the shortest one returned.
C8_SlowestBlocks ==
    (out.op = "GetSlowestBlocks" /\ out.limit >= 0)
    => /\ out.status = "ok"
       /\ Len(out.val) = IF out.limit < Model.TotalBlocksCount
                         THEN out.limit ELSE Model.TotalBlocksCount
       /\ NonIncreasing
       /\ \A i \in 1..Len(out.val) :
             LET d == out.val[i].Duration
             IN  Same(ListedDurations, d) <= Same(ModelDurations, d)
       /\ out.val # <<>>
          => LET shortest == out.val[Len(out.val)].Duration
             IN  Longer(ListedDurations, shortest) = Longer(ModelDurations, shortest)

\* slowestEvents(2) has answered on a model of three events, of which it
\* returned those of 3 ns and 2 ns and left out one of negative duration.
C8_Witness ==
    /\ out.op = "GetSlowestBlocks"
    /\ out.limit = 2
    /\ Model.TotalBlocksCount = 3
    /\ ListedDurations = <<U64(3), U64(2)>>
    /\ \E i \in 1..Len(ModelDurations) : IsNeg(ModelDurations[i])

\* C9 as stated: for N >= 0, the buckets of hotspots(N) have non-increasing
\* total durations and each bucket's call count times its average duration
\* equals its total duration.
C9_ProductIsTotal ==
    (out.op = "GetHotspots" /\ out.limit >= 0)
    => /\ out.status = "ok"
       /\ NonIncreasing
       /\ \A i \in 1..Len(out.val) :
             WMul(out.val[i].AvgDuration, out.val[i].CallCount) = out.val[i].Duration

\* What the total of a bucket exceeds count * average by, as a magnitude:
\* the remainder of the division, taken with the sign of the total.
Remainder(info) ==
    LET r == WSub(info.Duration, WMul(info.AvgDuration, info.CallCount))
    IN  IF IsNeg(info.Duration) THEN WNeg(r) ELSE r

\* C9: for N >= 0, the buckets of hotspots(N) have non-increasing total
\* durations, and each bucket's average is its total divided by its call
\* count and truncated toward zero: the total exceeds count * average by
\* less than count, on the side of the total's sign; the product equals
\* the total when the count divides it.
C9_Hotspots ==
    (out.op = "GetHotspots" /\ out.limit >= 0)
    => /\ out.status = "ok"
       /\ NonIncreasing
       /\ \A i \in 1..Len(out.val) :
             /\ out.val[i].CallCount > 0
             /\ WLt(Remainder(out.val[i]), U64(out.val[i].CallCount))

\* hotspots has returned, after a longer bucket, a bucket of two calls
\* lasting -5 ns together, its average -2 ns.
C9_Witness ==
    /\ out.op = "GetHotspots"
    /\ out.limit >= 0
    /\ Len(out.val) = 2
    /\ out.val[2].CallCount = 2
    /\ out.val[2].Duration = WNeg(U64(5))
    /\ out.val[2].AvgDuration = WNeg(U64(2))

\* C10: on a decoded model no analysis operation fails: slowestEvents and
\* hotspots return a list for every integer limit, clamped to what there
\* is, and threadStatistics returns a list for every model.
C10_AnalysisNeverFails ==
    out.op # "none"
    => /\ out.status = "ok"
       /\ pc = "loaded"
       /\ out.op \in {"GetSlowestBlocks", "GetHotspots"}
          => Len(out.val) <= (IF out.limit < 0 THEN 0 ELSE out.limit)

\* slowestEvents(-1) has panicked on a decoded model.
C10_PanicOnNegativeLimit ==
    /\ pc = "crashed"
    /\ out.op = "GetSlowestBlocks"
    /\ out.limit = -1
    /\ out.status = "panic"

---------------------------------------------------------------------------
(* C11: the analysis tools and the loaded profile.                         *)

Queries ==
    {"get_slowest_blocks", "get_thread_statistics", "get_hotspots",
     "analyze_performance_issues"}

\* C11: the last tool call being an analysis query, it has answered with
\* the error "No profile loaded. Use load_profile first." if no
\* load_profile had succeeded before it, and with a result, never that
\* error, if one had.
C11_QueriesNeedProfile ==
    out.op \in Queries =>
        IF currentProfile = <<>> THEN out.status = NotLoadedError
        ELSE out.status = "ok"

\* get_slowest_blocks or get_hotspots with limit -1 has panicked after a
\* successful load_profile.
C11_PanicAfterLoad ==
    /\ currentProfile # <<>>
    /\ out.op \in {"get_slowest_blocks", "get_hotspots"}
    /\ out.limit = -1
    /\ out.status = "panic"

---------------------------------------------------------------------------
(* C12..C15: the issues AnalyzePerformanceIssues returns.                  *)

\* AnalyzePerformanceIssues has returned the list out.val.
Issued == out.op = "AnalyzePerformanceIssues" /\ out.status = "ok"

\* The places in out.val of the issues of one rule.
IssuesOfType(type) == {k \in 1..Len(out.val) : out.val[k].Type = type}

\* The places of the long-block issues of thread t with duration d.
LongIssues(t, d) ==
    {k \in IssuesOfType("Long Blocking Operation") :
       out.val[k].ThreadID = t /\ out.val[k].Duration = d}

\* C12: the issues hold exactly one "Long Blocking Operation" for every
\* event, nested at any depth in any thread, that lasts more than 100 ms
\* and none for any other event; its severity is "high" if the event lasts
\* more than 500 ms and "medium" otherwise.
C12_LongBlocks ==
    Issued =>
      /\ \A t \in DOMAIN Model.Threads :
           \A d \in {DurationsOf(Model.Threads[t].Blocks)[i] :
                      i \in 1..Len(DurationsOf(Model.Threads[t].Blocks))} :
              Cardinality(LongIssues(t, d))
                = IF SLt(U64(100 * NsPerMs), d)
                  THEN Same(DurationsOf(Model.Threads[t].Blocks), d) ELSE 0
      /\ \A k \in IssuesOfType("Long Blocking Operation") :
           /\ out.val[k].ThreadID \in DOMAIN Model.Threads
           /\ Same(DurationsOf(Model.Threads[out.val[k].ThreadID].Blocks),
                   out.val[k].Duration) > 0
           /\ out.val[k].Severity
                = IF SLt(U64(500 * NsPerMs), out.val[k].Duration)
                  THEN "high" ELSE "medium"

\* A block of 100 ms with a child of 600 ms and a grandchild of 500 ms:
\* the thread has two long-block issues, one high and one medium.
C12_Witness ==
    /\ Issued
    /\ Model.Threads[U64(1)].Blocks
         = Chain(<<100 * NsPerMs, 600 * NsPerMs, 500 * NsPerMs>>)
    /\ \E h, m \in IssuesOfType("Long Blocking Operation") :
         /\ out.val[h].ThreadID = U64(1) /\ out.val[h].Severity = "high"
         /\ out.val[h].Duration = U64(600 * NsPerMs)
         /\ out.val[m].ThreadID = U64(1) /\ out.val[m].Severity = "medium"
         /\ out.val[m].Duration = U64(500 * NsPerMs)
    /\ LongIssues(U64(1), U64(100 * NsPerMs)) = {}

\* The total of thread t: the sum of the durations of its top-level events.
ThreadTotal(t) == calculateThreadDuration(Model.Threads[t].Blocks)

\* There are two threads or more, the least total is positive and the
\* greatest is more than twice the least.
Imbalanced ==
    /\ Cardinality(DOMAIN Model.Threads) >= 2
    /\ \E hi, lo \in DOMAIN Model.Threads :
         /\ \A t \in DOMAIN Model.Threads :
              /\ ~SLt(ThreadTotal(hi), ThreadTotal(t))
              /\ ~SLt(ThreadTotal(t), ThreadTotal(lo))
         /\ SLt(Zeros(8), ThreadTotal(lo))
         /\ SLt(WMul(ThreadTotal(lo), 2), ThreadTotal(hi))

\* C13: the issues hold exactly one "Thread Imbalance", of severity
\* "medium", if the model has at least two threads, the least per-thread
\* total is positive and the greatest is more than 2.0 times the least;
\* otherwise they hold none.
C13_ThreadImbalance ==
    Issued =>
      /\ Cardinality(IssuesOfType("Thread Imbalance"))
           = IF Imbalanced THEN 1 ELSE 0
      /\ \A k \in IssuesOfType("Thread Imbalance") :
           out.val[k].Severity = "medium"

\* Three threads with totals 5, 3 and 2 ns: one imbalance issue, of 3 ns.
C13_Witness ==
    /\ Issued
    /\ DOMAIN Model.Threads = {U64(1), U64(2), U64(3)}
    /\ ThreadTotal(U64(1)) = U64(5)
    /\ ThreadTotal(U64(2)) = U64(3)
    /\ ThreadTotal(U64(3)) = U64(2)
    /\ \E k \in IssuesOfType("Thread Imbalance") : out.val[k].Duration = U64(3)

\* The buckets of the model: the blocks of all threads by name and place.
Buckets == aggregateThreads(Model, SomeOrder(DOMAIN Model.Threads), EmptyMap)

\* How many buckets have a total of d, and how many a greater one.
SameBuckets(d) == Cardinality({k \in DOMAIN Buckets : Buckets[k].Duration = d})
GreaterBuckets(d) ==
    Cardinality({k \in DOMAIN Buckets : SLt(d, Buckets[k].Duration)})

\* How many of the buckets with a total of d are among the ten greatest.
InTopTen(d) ==
    IF GreaterBuckets(d) >= 10 THEN 0
    ELSE IF SameBuckets(d) <= 10 - GreaterBuckets(d) THEN SameBuckets(d)
    ELSE 10 - GreaterBuckets(d)

HotIssues(d) == {k \in IssuesOfType("Hot Function") : out.val[k].Duration = d}

\* The total d is more than num tenths of the total duration.
AboveShare(d, num) == SLt(WMul(GetTotalDuration(Model), num), WMul(d, 10))

\* C14: the total duration being positive, the issues hold a "Hot
\* Function" for a bucket exactly if it is among the ten buckets of the
\* greatest total and its share of the total duration is above 10%; the
\* severity is "high" above 30%, "medium" above 20% and up to 30%, "low"
\* above 10% and up to 20%.
C14_HotFunctions ==
    (Issued /\ SLt(Zeros(8), GetTotalDuration(Model))) =>
      /\ \A b \in DOMAIN Buckets :
           Cardinality(HotIssues(Buckets[b].Duration))
             = IF AboveShare(Buckets[b].Duration, 1)
               THEN InTopTen(Buckets[b].Duration) ELSE 0
      /\ \A k \in IssuesOfType("Hot Function") :
           /\ SameBuckets(out.val[k].Duration) > 0
           /\ out.val[k].Severity
                = IF AboveShare(out.val[k].Duration, 3) THEN "high"
                  ELSE IF AboveShare(out.val[k].Duration, 2) THEN "medium"
                  ELSE "low"

\* Eleven buckets, the least two of 12% and 11%: ten hot functions, none
\* for the bucket of 11%; the issues have all three severities.
C14_Witness ==
    /\ Issued
    /\ GetTotalDuration(Model) = U64(100)
    /\ Cardinality(DOMAIN Buckets) = 11
    /\ SameBuckets(U64(12)) = 1 /\ SameBuckets(U64(11)) = 1
    /\ Cardinality(IssuesOfType("Hot Function")) = 10
    /\ HotIssues(U64(11)) = {}
    /\ {out.val[k].Severity : k \in IssuesOfType("Hot Function")}
         = {"high", "medium", "low"}

\* The place of an issue's rule in AnalyzePerformanceIssues.
RuleRank(issue) ==
    CASE issue.Type = "Long Blocking Operation" -> 1
      [] issue.Type = "Thread Imbalance" -> 2
      [] issue.Type = "Excessive Context Switches" -> 3
      [] OTHER -> 4

SeverityRank(issue) ==
    CASE issue.Severity = "high" -> 1
      [] issue.Severity = "medium" -> 2
      [] OTHER -> 3

\* C15: the issues come with all "high" before all "medium" before all
\* "low", and issues of equal severity in the order of the rules that
\* produced them: long blocks, thread imbalance, context switches, hot
\* functions.
C15_StableBySeverity ==
    Issued =>
      \A i, j \in 1..Len(out.val) :
         i < j =>
           /\ SeverityRank(out.val[i]) <= SeverityRank(out.val[j])
           /\ SeverityRank(out.val[i]) = SeverityRank(out.val[j])
                => RuleRank(out.val[i]) <= RuleRank(out.val[j])

\* Thirteen issues, produced as eleven medium long blocks, a medium thread
\* imbalance and a high hot function: the hot function comes first and the
\* thread imbalance before the last long block.
C15_ImbalanceBeforeLongBlock ==
    /\ Issued
    /\ Model = ManyIssuesProfile
    /\ Len(out.val) = 13
    /\ out.val[1].Type = "Hot Function"
    /\ \A k \in 2..11 : out.val[k].Type = "Long Blocking Operation"
    /\ out.val[12].Type = "Thread Imbalance"
    /\ out.val[13].Type = "Long Blocking Operation"
    /\ \A i, j \in 1..13 :
         i < j => SeverityRank(out.val[i]) <= SeverityRank(out.val[j])

---------------------------------------------------------------------------
(* C16, C17: the options MaxThreads and SampleBlocks.                      *)

\* C16: decoded with MaxThreads = k > 0, the model has at most k threads.
C16_MaxThreads ==
    (Loaded /\ options.MaxThreads > 0) =>
        Cardinality(DOMAIN Model.Threads) <= options.MaxThreads

\* A capture of two threads decoded with MaxThreads = 1 has both threads.
C16_BothThreadsRead ==
    /\ Loaded
    /\ options.MaxThreads = 1
    /\ Len(file.threads) = 2
    /\ DOMAIN Model.Threads = {U64(1), U64(2)}

\* ceil(b / n) for n > 0.
CeilDiv(b, n) == (b + n - 1) \div n

\* The thread records of the file with the identifier t.
RecordsOf(t) == {i \in 1..Len(file.threads) : file.threads[i].ThreadID = t}

\* C17: decoded with SampleBlocks = N > 1, every thread of the model has
\* at most ceil(B / N) top-level events, B being the number its thread
\* record declares.
C17_SampleBlocks ==
    (Loaded /\ options.SampleBlocks > 1) =>
        \A t \in DOMAIN Model.Threads :
           \E i \in RecordsOf(t) :
              Len(Model.Threads[t].Blocks)
                <= CeilDiv(Len(file.threads[i].Blocks), options.SampleBlocks)

\* A thread record of two events decoded with SampleBlocks = 10 has both.
C17_EveryBlockRead ==
    /\ Loaded
    /\ options.SampleBlocks = 10
    /\ Len(file.threads) = 1
    /\ Len(file.threads[1].Blocks) = 2
    /\ Len(Model.Threads[U64(1)].Blocks) = 2

---------------------------------------------------------------------------
(* C18: SkipContextSwitches.                                               *)

\* The outcome s of a decoding is the model decoded here, but for the
\* context switches, which it leaves out.
SameButContextSwitches(s) ==
    /\ s.status = "ok"
    /\ s.model[1].Header = Model.Header
    /\ s.model[1].Descriptors = Model.Descriptors
    /\ s.model[1].Bookmarks = Model.Bookmarks
    /\ DOMAIN s.model[1].Threads = DOMAIN Model.Threads
    /\ \A t \in DOMAIN Model.Threads :
         /\ s.model[1].Threads[t].ThreadName = Model.Threads[t].ThreadName
         /\ s.model[1].Threads[t].Blocks = Model.Threads[t].Blocks
         /\ s.model[1].Threads[t].ContextSwitches = <<>>

\* C18: a capture that decodes with the default options decodes with
\* SkipContextSwitches set as well, to the same header, descriptors,
\* threads, names and events, with every list of context switches empty.
C18_SkipContextSwitches ==
    (Loaded /\ options = DefaultReadOptions) =>
        SameButContextSwitches(
            Parse(Input, [DefaultReadOptions EXCEPT !.SkipContextSwitches = TRUE]))

\* A context switch whose declared size is below its 24 fixed bytes,
\* followed by the bytes its wrapped name length asks for, decodes with the
\* default options and fails with SkipContextSwitches set.
C18_SkipPathFails ==
    /\ Loaded
    /\ options = DefaultReadOptions
    /\ Len(file.threads) = 1
    /\ Len(file.threads[1].ContextSwitches) = 1
    /\ file.threads[1].ContextSwitches[1].Size < 24
    /\ Parse(Input, [DefaultReadOptions EXCEPT !.SkipContextSwitches = TRUE]).status
         = "error"

---------------------------------------------------------------------------
(* C19: durations.                                                         *)

\* C19: no event of the decoded model has a negative duration, and the
\* total duration of the capture is not negative, whatever the begin and
\* end times are.
C19_NoNegativeDuration ==
    Loaded =>
      /\ \A i \in 1..Len(ModelDurations) : ~IsNeg(ModelDurations[i])
      /\ ~IsNeg(GetTotalDuration(Model))

\* An event written with begin 5 and end 3 has the duration -2 ns.
C19_NegativeDuration ==
    /\ Loaded
    /\ \E t \in DOMAIN Model.Threads :
         \E i \in 1..Len(Model.Threads[t].Blocks) :
            /\ Model.Threads[t].Blocks[i].Begin = U64(5)
            /\ Model.Threads[t].Blocks[i].End = U64(3)
            /\ Duration(Model.Threads[t].Blocks[i]) = WNeg(U64(2))

---------------------------------------------------------------------------
(* C20: the end of the bookmark section.                                   *)

\* C20: a whole capture of version 2.1.0 with bookmarks, whose thread
\* section ends with the 32-bit signature and whose bookmark section ends
\* with 0x45617329, decodes when the bookmarks are read.
C20_BookmarksEndAccepted ==
    (/\ Parsed
     /\ file.cut < 0
     /\ file.bookmarks # <<>>
     /\ file.bterm = DocBookmarksEnd
     /\ file.term = U32(EasyProfilerSignature)
     /\ ~options.SkipBookmarks) => Loaded

\* Such a capture is rejected while its bookmarks are read, after its
\* thread section has ended with 0x45617379 and been accepted.
C20_BookmarksEndRejected ==
    /\ Parsed
    /\ file.cut < 0
    /\ file.bookmarks # <<>>
    /\ file.bterm = DocBookmarksEnd
    /\ file.term = U32(EasyProfilerSignature)
    /\ ~options.SkipBookmarks
    /\ ret.status = "error"
    /\ ret.err = "failed to read bookmarks"

---------------------------------------------------------------------------
(* C21..C23: the end of the thread section.                                *)

\* The identifiers of the thread records written to the file.
WrittenThreadIDs == {file.threads[i].ThreadID : i \in 1..Len(file.threads)}

\* C21: a whole capture of a version below 2.1.0 that ends where the next
\* thread identifier would start decodes, to a model with all its threads.
C21_EndOfStreamEndsThreads ==
    (/\ Parsed
     /\ file.term = <<>>
     /\ WLt(file.hdr.Version, U32(Version210))
     /\ file \in Whole)
    => (Loaded /\ DOMAIN Model.Threads = WrittenThreadIDs)

\* A capture of version 2.0.0 with two threads and nothing after them is
\* rejected while its threads are read.
C21_EndOfStreamFails ==
    /\ Parsed
    /\ file.term = <<>>
    /\ file.hdr.Version = U32(Version200)
    /\ Len(file.threads) = 2
    /\ file \in Whole
    /\ ret.status = "error"
    /\ ret.err = "failed to read threads"


\* The thread section of the input as readThreads leaves it: where it
\* starts, and its outcome.
ThreadsStart == readDescriptors(Input, readHeader(Input).pos, Model.Header).pos
ThreadSection == readThreads(Input, ThreadsStart, Model.Header, options)

\* C22: a capture of version 2.1.0 or later that decodes had exactly the
\* declared number of thread records read, and after the last of them
\* either a 32-bit word equal to the signature or the end of the stream.
C22_DeclaredThreadsThenSignature ==
    (Loaded /\ ~WLt(Model.Header.Version, U32(Version210))) =>
      /\ NatEqU32(ThreadSection.threadsRead, Model.Header.ThreadsCount)
      /\ \/ ThreadSection.pos = Len(Input)
         \/ /\ ThreadSection.pos >= ThreadsStart + 4
            /\ SubSeq(Input, ThreadSection.pos - 3, ThreadSection.pos)
                 = U32(EasyProfilerSignature)

\* A capture of version 2.1.0 whose header declares 0xFFFFFFFF threads
\* decodes after two thread records, at an identifier whose low 32 bits
\* are the signature.
C22_SentinelCountAccepted ==
    /\ Loaded
    /\ Model.Header.Version = U32(Version210)
    /\ Model.Header.ThreadsCount = UntilSignature
    /\ ThreadSection.threadsRead = 2
    /\ Cardinality(DOMAIN Model.Threads) = 2


\* The width of a thread identifier in the capture written.
IDWidth == IF WLt(file.hdr.Version, U32(Version130)) THEN 4 ELSE 8

\* C23: a whole capture of a version below 2.1.0 whose thread records are
\* followed by an identifier with the signature in its low 32 bits decodes;
\* its threads are those of the records before that identifier, and the
\* reading stops right after the identifier.
C23_SignatureEndsThreads ==
    (/\ Parsed
     /\ WLt(file.hdr.Version, U32(Version210))
     /\ Len(file.term) >= IDWidth
     /\ SubSeq(file.term, 1, 4) = U32(EasyProfilerSignature)
     /\ file \in Whole)
    => /\ Loaded
       /\ DOMAIN Model.Threads = WrittenThreadIDs
       /\ U32(EasyProfilerSignature) \o Zeros(4) \notin DOMAIN Model.Threads
       /\ ret.pos = Len(Input) - Len(file.term) + IDWidth

\* A capture of version 1.0.0 with two threads and the 64-bit end signature
\* decodes to two threads; the last four bytes are not read.
C23_Witness ==
    /\ Loaded
    /\ file.hdr.Version = U32(Version100)
    /\ file.term = EndSignature64
    /\ Len(file.threads) = 2
    /\ file \in Whole
    /\ Cardinality(DOMAIN Model.Threads) = 2
    /\ ret.pos = Len(Input) - 4

---------------------------------------------------------------------------
(* C24: the bookmark section.                                              *)

\* The conditions under which Parse reads the bookmark section.
BookmarksWanted ==
    /\ ~options.SkipBookmarks
    /\ ~WLt(Model.Header.Version, U32(Version210))
    /\ Val16(Model.Header.BookmarksCount) > 0

\* C24: a decoded model has as many bookmarks as its header declares when
\* the version is 2.1.0 or later, the declared count is not zero and
\* SkipBookmarks is not set; in every other case it has no bookmarks and
\* nothing after the thread section was read.
C24_Bookmarks ==
    Loaded =>
      IF BookmarksWanted
      THEN Len(Model.Bookmarks) = Val16(Model.Header.BookmarksCount)
      ELSE Model.Bookmarks = <<>> /\ ret.pos = ThreadSection.pos

\* A capture declaring two bookmarks decodes to two bookmarks.
C24_Witness ==
    /\ Loaded
    /\ BookmarksWanted
    /\ Model.Header.BookmarksCount = LE(2, 2)
    /\ Len(Model.Bookmarks) = 2
    /\ ret.pos = Len(Input)


---------------------------------------------------------------------------
(* C25: the statistics of the threads.                                     *)

ThreadStatsListed == out.op = "GetThreadStatistics" /\ out.status = "ok"

\* The sum of the durations of the blocks i..Len(blocks) of one level.
RECURSIVE TopLevelSum(_, _)
TopLevelSum(blocks, i) ==
    IF i > Len(blocks) THEN Zeros(8)
    ELSE WAdd(WSub(blocks[i].End, blocks[i].Begin), TopLevelSum(blocks, i + 1))

\* q is the quotient of total by count, rounded toward zero: what is left
\* of total is less than count in size and has the sign of total.
IsQuotient(q, total, count) ==
    LET left == WSub(total, WMul(q, count))
    IN  IF IsNeg(total)
        THEN left = Zeros(8) \/ (IsNeg(left) /\ WLt(WNeg(left), U64(count)))
        ELSE WLt(left, U64(count))

\* C25: thread statistics hold one entry per thread, in non-increasing
\* order of total duration; an entry's total is the sum of the durations of
\* the thread's top-level blocks alone, its block count the number of
\* blocks of the whole forest, its context-switch count the length of the
\* thread's list, and its average the quotient of total by count, or zero
\* when there are no blocks.
C25_ThreadStatistics ==
    ThreadStatsListed =>
      /\ Len(out.val) = Cardinality(DOMAIN Model.Threads)
      /\ {out.val[k].ThreadID : k \in 1..Len(out.val)} = DOMAIN Model.Threads
      /\ \A k \in 1..(Len(out.val) - 1) :
           ~SLt(out.val[k].TotalDuration, out.val[k + 1].TotalDuration)
      /\ \A k \in 1..Len(out.val) :
           LET thread == Model.Threads[out.val[k].ThreadID]
               nodes == Len(DurationsOf(thread.Blocks))
           IN  /\ out.val[k].TotalDuration = TopLevelSum(thread.Blocks, 1)
               /\ out.val[k].BlockCount = nodes
               /\ out.val[k].ContextSwitches = Len(thread.ContextSwitches)
               /\ IF nodes = 0 THEN out.val[k].AvgBlockDuration = Zeros(8)
                  ELSE IsQuotient(out.val[k].AvgBlockDuration,
                                  out.val[k].TotalDuration, nodes)

\* Three threads listed by totals 5, 3 and -2 ns; the first thread has
\* three blocks, one of them nested and of 9 ns, and an average of 1 ns;
\* the last has three blocks too and an average of zero.
C25_Witness ==
    /\ ThreadStatsListed
    /\ Len(out.val) = 3
    /\ out.val[1].TotalDuration = U64(5) /\ out.val[1].BlockCount = 3
    /\ out.val[1].AvgBlockDuration = U64(1)
    /\ out.val[2].TotalDuration = U64(3)
    /\ out.val[3].TotalDuration = U64(-2)


---------------------------------------------------------------------------
(* C26: the buckets of the hotspot aggregation.                            *)

HotspotsListed == out.op = "GetHotspots" /\ out.status = "ok"

RECURSIVE NodesOf(_)
\* The blocks of a forest, nested ones included.
NodesOf(blocks) ==
    IF blocks = <<>> THEN <<>>
    ELSE <<Head(blocks)>> \o NodesOf(Head(blocks).Children) \o NodesOf(Tail(blocks))

\* The aggregation key of a block as a tuple: resolved name, file and line
\* with a descriptor, resolved name alone without.
KeyTuple(block) ==
    LET name == IF block.Name = <<>> /\ block.ID \in DOMAIN Model.Descriptors
                THEN Model.Descriptors[block.ID].Name ELSE block.Name
    IN  IF block.ID \in DOMAIN Model.Descriptors
        THEN <<name, Model.Descriptors[block.ID].File,
               Model.Descriptors[block.ID].Line>>
        ELSE <<name>>

\* The keys of all blocks of the model.
KeyTuples ==
    UNION {{KeyTuple(NodesOf(Model.Threads[t].Blocks)[i]) :
              i \in 1..Len(NodesOf(Model.Threads[t].Blocks))} :
           t \in DOMAIN Model.Threads}

\* C26: blocks are in one bucket if and only if their keys are equal, the
\* key being (resolved name, file, line) with a descriptor and the resolved
\* name without: a listing that no limit has shortened has as many
\* buckets as the blocks have keys.
C26_OneBucketPerKey ==
    (HotspotsListed /\ out.limit >= Cardinality(KeyTuples))
      => Len(out.val) = Cardinality(KeyTuples)

\* A block of descriptor 1 ("A" at "b:c", line 1) and a block of
\* descriptor 2 ("A:b" at "c", line 1) are counted in one bucket.
C26_KeysCollide ==
    /\ HotspotsListed
    /\ out.limit >= 2
    /\ Len(Model.Threads[U64(1)].Blocks) = 2
    /\ Model.Threads[U64(1)].Blocks[1].ID = U32(1)
    /\ Model.Threads[U64(1)].Blocks[2].ID = U32(2)
    /\ Model.Threads[U64(1)].Blocks[1].Name = <<>>
    /\ Model.Threads[U64(1)].Blocks[2].Name = <<>>
    /\ Cardinality(KeyTuples) = 2
    /\ Len(out.val) = 1
    /\ out.val[1].CallCount = 2


---------------------------------------------------------------------------
(* C27: decoded blocks have no children.                                   *)

\* The last thread record of the file with the identifier t.
LastRecordOf(t) == CHOOSE i \in RecordsOf(t) : \A j \in RecordsOf(t) : j <= i

---------------------------------------------------------------------------
(* C28: a load_profile call that fails.                                    *)

\* The step is a load_profile call answered with an error.
FailedLoad ==
    /\ out'.op = "load_profile"
    /\ out'.status \in {OpenError, ParseError}

\* The analyzer is set exactly when the profile is, and wraps it.
AnalyzerWrapsProfile ==
    /\ (currentAnalyzer = <<>>) <=> (currentProfile = <<>>)
    /\ currentAnalyzer # <<>> => currentAnalyzer[1].profile = currentProfile[1]

\* C28: a load_profile call that fails, because the file does not open or
\* does not decode, leaves the current profile and the current analyzer as
\* they were, so that the queries that follow are answered from the same
\* model as before; and between calls the analyzer is set if and only if
\* the profile is set, and is the analyzer of that profile.
C28_FailedLoadKeepsSession ==
    /\ []AnalyzerWrapsProfile
    /\ [][FailedLoad => /\ currentProfile' = currentProfile
                        /\ currentAnalyzer' = currentAnalyzer]_vars

\* A capture is loaded and a later load_profile has failed to decode
\* another file: the profile of the first capture is still the current one.
C28_Witness ==
    /\ out.op = "load_profile"
    /\ out.status = ParseError
    /\ ret.status = "error"
    /\ currentAnalyzer # <<>>
    /\ Cardinality(DOMAIN currentAnalyzer[1].profile.Threads) = 2
    /\ currentProfile = <<currentAnalyzer[1].profile>>


---------------------------------------------------------------------------
(* C29: the hotspot aggregation loses no block.                            *)

RECURSIVE WSum(_)
\* The sum of a sequence of 64-bit words.
WSum(q) == IF q = <<>> THEN Zeros(8) ELSE WAdd(Head(q), WSum(Tail(q)))

\* C29: when the limit is at least the number of buckets, the call counts
\* of the buckets listed add up to the number of blocks of the model, and
\* their total durations to the sum of the durations of all its blocks.
C29_HotspotsConserveBlocks ==
    (HotspotsListed /\ out.limit >= Cardinality(DOMAIN Buckets)) =>
      /\ SumSeq([k \in 1..Len(out.val) |-> out.val[k].CallCount])
           = Len(ModelDurations)
      /\ Len(ModelDurations) = GetBlocksCount(Model.Threads)
      /\ WSum([k \in 1..Len(out.val) |-> out.val[k].Duration])
           = WSum(ModelDurations)

\* Three threads of three nested blocks and one block each, all of one
\* name: one bucket of five calls.
C29_Witness ==
    /\ HotspotsListed
    /\ out.limit = 1
    /\ Cardinality(DOMAIN Model.Threads) = 3
    /\ Len(ModelDurations) = 5
    /\ Len(Model.Threads[U64(1)].Blocks) = 2
    /\ Len(out.val) = 1
    /\ out.val[1].CallCount = 5


---------------------------------------------------------------------------
(* Reader.Parse step by step: one action per loop iteration and per        *)
(* stretch of code between the loops.  reader holds the cursor, the header *)
(* read, the index i and the bound count of the loop under way, and        *)
(* threadsRead; pc says which loop the Reader is in.  The model decoded is *)
(* left out: ret holds the status, the error and the cursor at the end.    *)

\* Thread records that declare more context switches or blocks than they
\* hold.
OverCounted ==
    {Capture(v, HdrDoc, <<DescA>>,
             <<[Thr(1, <<109>>, <<Ctx(1, 1, 2, <<99>>)>>, <<BlockPool[1]>>)
                  EXCEPT !.SwitchesCount = cc, !.BlocksCount = bc]>>,
             EndSignature64, <<>>, <<>>) :
       v \in {Version100, Version210},
       cc \in {LE(1, 4), LE(3, 4), UntilSignature},
       bc \in {LE(1, 4), LE(3, 4), UntilSignature}}

\* The captures decoded step by step.
StepFiles ==
    {Rich(v) : v \in Versions}
    \cup {Capture(v, HdrDistinct, <<DescA>>, ts, term, <<>>, <<>>) :
            v \in {Version100, Version200, Version210}, ts \in FewThreadLists,
            term \in {EndSignature64, U32(EasyProfilerSignature), <<>>}}
    \cup {Capture(Version210, HdrDistinct, <<DescA>>, <<>>,
                  U32(EasyProfilerSignature), bs, bt) :
            bs \in BookmarkLists \ {<<>>},
            bt \in {U32(EasyProfilerSignature), DocBookmarksEnd}}
    \cup {f \in Truncated : f.hdr.Version = U32(Version210)}
    \cup BadCounts \cup BadRecords \cup OverCounted

StepInit ==
    /\ file \in StepFiles
    /\ options \in {DefaultReadOptions, FastReadOptions}
    /\ pc = "start"
    /\ ret = NoRet
    /\ out = NoOut
    /\ currentProfile = <<>>
    /\ currentAnalyzer = <<>>
    /\ reader = NoReader

\* What a step leaves: where the Reader is, its fields, and what Parse has
\* returned.  Parse returns with the error of r wrapped as step, or with
\* the model.
ParseReturns(status, err, p) ==
    [pc |-> CASE status = "ok" -> "loaded"
              [] status = "panic" -> "crashed"
              [] OTHER -> "failed",
     ret |-> [status |-> status, err |-> err, model |-> <<>>, pos |-> p],
     reader |-> [reader EXCEPT !.pos = p]]

Fail(r, step) ==
    ParseReturns(IF r.err = "panic" THEN "panic" ELSE "error", step, r.pos)

\* The Reader goes on at p with the loop named loop, of count iterations.
Enter(loop, p, count) ==
    [pc |-> loop, ret |-> ret,
     reader |-> [reader EXCEPT !.pos = p, !.i = 0, !.count = count]]

\* One iteration of the loop under way has read up to p.
Iterated(p) ==
    [pc |-> pc, ret |-> ret, reader |-> [reader EXCEPT !.pos = p, !.i = @ + 1]]

\* The step leaves s; the file, the options and the session are as before.
Becomes(s) ==
    /\ pc' = s.pc
    /\ ret' = s.ret
    /\ reader' = s.reader
    /\ UNCHANGED <<file, options, out, currentProfile, currentAnalyzer>>

\* Parse up to the descriptor loop: the header is read and validated.
AfterHeader(b) ==
    LET Then(h) ==
            IF h.err # "" THEN Fail(h, "failed to read header")
            ELSE IF ~ValidSignature(h.hdr)
                 THEN ParseReturns("error", "invalid file signature", h.pos)
            ELSE IF ~SupportedVersion(h.hdr)
                 THEN ParseReturns("error", "unsupported version", h.pos)
            ELSE [pc |-> "descriptors", ret |-> ret,
                  reader |-> [NoReader EXCEPT !.pos = h.pos, !.hdr = h.hdr,
                                !.count = h.hdr.DescriptorsCount]]
    IN  Then(readHeader(b))

StepHeader ==
    /\ pc = "start"
    /\ \E b \in {Input} : \E s \in {AfterHeader(b)} : Becomes(s)

\* One iteration of the loop of readDescriptors.
AfterDescriptor(b) ==
    LET Then(d) ==
            IF d.err # "" THEN Fail(d, "failed to read descriptors")
            ELSE Iterated(d.pos)
    IN  Then(readDescriptor(b, reader.pos))

StepDescriptor ==
    /\ pc = "descriptors"
    /\ NatLtU32(reader.i, reader.count)
    /\ \E b \in {Input} : \E s \in {AfterDescriptor(b)} : Becomes(s)

\* expectedThreads of readThreads.
ExpectedThreads ==
    IF WLt(reader.hdr.Version, U32(Version210)) THEN UntilSignature
    ELSE reader.hdr.ThreadsCount

\* readDescriptors returns and readThreads starts.
StepThreadsStart ==
    /\ pc = "descriptors"
    /\ ~NatLtU32(reader.i, reader.count)
    /\ Becomes([pc |-> "threads", ret |-> ret,
                reader |-> [reader EXCEPT !.threadsRead = 0,
                                          !.count = ExpectedThreads]])

\* readThreads has returned nil at p: the bookmarks follow, or the end.
AfterThreads(p) ==
    IF /\ ~options.SkipBookmarks
       /\ ~WLt(reader.hdr.Version, U32(Version210))
       /\ Val16(reader.hdr.BookmarksCount) > 0
    THEN Enter("bookmarks", p, reader.hdr.BookmarksCount \o Zeros(2))
    ELSE ParseReturns("ok", "", p)

\* The code of readThreads after its loop: the end signature is read.
EndSignatureAt(b, p) ==
    LET Then(sg) ==
            IF sg.err # ""
            THEN IF sg.err = "EOF" /\ NatEqU32(reader.threadsRead, ExpectedThreads)
                 THEN AfterThreads(sg.pos)
                 ELSE Fail(sg, "failed to read threads")
            ELSE IF sg.vals[1] # U32(EasyProfilerSignature)
                 THEN Fail(sg, "failed to read threads")
            ELSE AfterThreads(sg.pos)
    IN  Then(ReadFields(b, p, <<4>>))

\* One iteration of the loop of readThreads, up to the context switch loop
\* of readThread: the thread ID is read, then the name and the count of
\* context switches.  At the end of the file the loop is left and the code
\* after it runs; at the signature readThreads returns.
AfterThreadID(b) ==
    LET Head3(r) ==
            IF r.err # "" THEN Fail(r, "failed to read threads")
            ELSE Enter("contextSwitches", r.pos, r.vals[1])
        Named(nm) ==
            IF nm.err # "" THEN Fail(nm, "failed to read threads")
            ELSE Head3(ReadFields(b, nm.pos, <<4>>))
        Sized(ns) ==
            IF ns.err # "" THEN Fail(ns, "failed to read threads")
            ELSE Named(ReadFull(b, ns.pos, Val16(ns.vals[1])))
        Then(id) ==
            IF id.err = "EOF" THEN EndSignatureAt(b, id.pos)
            ELSE IF id.err # "" THEN Fail(id, "failed to read threads")
            ELSE IF SubSeq(id.val, 1, 4) = U32(EasyProfilerSignature)
                    /\ ExpectedThreads = UntilSignature
                 THEN AfterThreads(id.pos)
            ELSE Sized(ReadFields(b, id.pos, <<2>>))
    IN  Then(ReadFull(b, reader.pos,
                      IF WLt(reader.hdr.Version, U32(Version130)) THEN 4 ELSE 8))

StepThread ==
    /\ pc = "threads"
    /\ NatLtU32(reader.threadsRead, ExpectedThreads)
    /\ \E b \in {Input} : \E s \in {AfterThreadID(b)} : Becomes(s)

\* The loop of readThreads ends by its count.
StepEndSignature ==
    /\ pc = "threads"
    /\ ~NatLtU32(reader.threadsRead, ExpectedThreads)
    /\ \E b \in {Input} : \E s \in {EndSignatureAt(b, reader.pos)} : Becomes(s)

\* One iteration of a loop of readThread or readBookmarks, the record read
\* being r: its error ends Parse.
AfterRecord(r, step) ==
    IF r.err # "" THEN Fail(r, step) ELSE Iterated(r.pos)

\* One iteration of the loop of readThread that reads context switches.
StepContextSwitch ==
    /\ pc = "contextSwitches"
    /\ ~options.SkipContextSwitches
    /\ NatLtU32(reader.i, reader.count)
    /\ \E b \in {Input} : \E r \in {readContextSwitch(b, reader.pos)} :
          Becomes(AfterRecord(r, "failed to read threads"))

\* One iteration of the loop of readThread that skips context switches.
StepSkipContextSwitch ==
    /\ pc = "contextSwitches"
    /\ options.SkipContextSwitches
    /\ NatLtU32(reader.i, reader.count)
    /\ \E b \in {Input} : \E r \in {skipContextSwitch(b, reader.pos)} :
          Becomes(AfterRecord(r, "failed to read threads"))

\* readThread between its loops: the count of blocks is read.
AfterBlocksCount(b) ==
    LET Then(bc) ==
            IF bc.err # "" THEN Fail(bc, "failed to read threads")
            ELSE Enter("blocks", bc.pos, bc.vals[1])
    IN  Then(ReadFields(b, reader.pos, <<4>>))

StepBlocksCount ==
    /\ pc = "contextSwitches"
    /\ ~NatLtU32(reader.i, reader.count)
    /\ \E b \in {Input} : \E s \in {AfterBlocksCount(b)} : Becomes(s)

\* One iteration of the block loop of readThread.
StepBlock ==
    /\ pc = "blocks"
    /\ NatLtU32(reader.i, reader.count)
    /\ \E b \in {Input} : \E r \in {readBlock(b, reader.pos)} :
          Becomes(AfterRecord(r, "failed to read threads"))

\* readThread returns: the thread is stored and threadsRead incremented.
StepThreadEnd ==
    /\ pc = "blocks"
    /\ ~NatLtU32(reader.i, reader.count)
    /\ Becomes([pc |-> "threads", ret |-> ret,
                reader |-> [reader EXCEPT !.threadsRead = @ + 1]])

\* One iteration of the loop of readBookmarks.
StepBookmark ==
    /\ pc = "bookmarks"
    /\ reader.i < Val16(reader.hdr.BookmarksCount)
    /\ \E b \in {Input} : \E r \in {readBookmark(b, reader.pos)} :
          Becomes(AfterRecord(r, "failed to read bookmarks"))

\* The code of readBookmarks after its loop, and the end of Parse.
AfterBookmarks(b) ==
    LET Then(sg) ==
            IF sg.err # "" \/ sg.vals[1] # U32(EasyProfilerSignature)
            THEN Fail(sg, "failed to read bookmarks")
            ELSE ParseReturns("ok", "", sg.pos)
    IN  Then(ReadFields(b, reader.pos, <<4>>))

StepBookmarksEnd ==
    /\ pc = "bookmarks"
    /\ reader.i >= Val16(reader.hdr.BookmarksCount)
    /\ \E b \in {Input} : \E s \in {AfterBookmarks(b)} : Becomes(s)

StepNext ==
    \/ StepHeader
    \/ StepDescriptor
    \/ StepThreadsStart
    \/ StepThread
    \/ StepEndSignature
    \/ StepContextSwitch
    \/ StepSkipContextSwitch
    \/ StepBlocksCount
    \/ StepBlock
    \/ StepThreadEnd
    \/ StepBookmark
    \/ StepBookmarksEnd

StepSpec == StepInit /\ [][StepNext]_vars

\* Parse runs on: a Reader that can take a step takes one.
StepLiveSpec == StepSpec /\ WF_vars(StepNext)

\* Parse has returned or panicked.
Returned == pc \in {"loaded", "failed", "crashed"}

\* Step by step, Parse ends as Parse does: with the same status and error
\* and its cursor at the same place.
StepsAgreeWithParse ==
    Returned =>
      LET Same3(r) == /\ ret.status = r.status
                      /\ ret.err = r.err
                      /\ ret.pos = r.pos
      IN  Same3(Parse(Input, options))

---------------------------------------------------------------------------
(* C30: Parse terminates.                                                  *)

\* The Reader is about to run an iteration of one of its loops.
InLoop ==
    \/ /\ pc \in {"descriptors", "contextSwitches", "blocks"}
       /\ NatLtU32(reader.i, reader.count)
    \/ /\ pc = "threads"
       /\ NatLtU32(reader.threadsRead, ExpectedThreads)
    \/ /\ pc = "bookmarks"
       /\ reader.i < Val16(reader.hdr.BookmarksCount)

\* C30: Parse terminates on every input: every iteration of the loops over
\* descriptors, threads, context switches (read or skipped), blocks and
\* bookmarks moves the cursor on by a byte at least or ends Parse with an
\* error, and Parse returns in the end.
C30_ParseTerminates ==
    /\ [][InLoop => \/ reader'.pos > reader.pos
                    \/ pc' \in {"failed", "crashed"}]_vars
    /\ <>Returned

\* Parse has failed in the block loop of a thread that declares
\* 0xFFFFFFFF blocks and holds one, after an iteration that read it.
C30_Witness ==
    /\ pc = "failed"
    /\ file \in OverCounted
    /\ file.threads[1].BlocksCount = UntilSignature
    /\ file.threads[1].SwitchesCount = LE(1, 4)
    /\ reader.count = UntilSignature
    /\ reader.i = 1
    /\ reader.pos = Len(Input)
    /\ ret.err = "failed to read threads"

=============================================================================
